---- MODULE Spec2Model ----
(***************************************************************************)
(* gotestpretty: the live test-run tree model.                             *)
(*                                                                         *)
(* The model follows model.go (model.nodeFor, model.processEvent,          *)
(* processChildren, nodeSorter, drop, copyWithIndent), the node type with  *)
(* findChild / output / append / prepend / processChildren, and the final  *)
(* pass of main; the view (collectNodes, elide, model.render); and the     *)
(* run of the program: the reader (process), the messages it sends to the  *)
(* update loop (model.Update) and the end of main.                         *)
(*                                                                         *)
(* Strings are sequences of one-character strings.  A name is kept as the  *)
(* sequence of its "/"-separated segments, so that strings.Split and       *)
(* strings.Join are list operations and two names are equal as strings     *)
(* exactly when their segment sequences are equal.                         *)
(* Time is counted in half seconds.                                        *)
(***************************************************************************)
EXTENDS Integers, Sequences, FiniteSets, TLC

(* ------------------------------ bounds -------------------------------- *)

\* nodes that nodeFor may allocate during a run (the root is not counted)
MaxNodes == 3
\* last value of the wall clock
MaxTime == 2
\* cap of the global total counter
MaxTotal == 2
\* cap of the number of lines an output buffer holds
MaxBuf == 2
\* cap of the number of blocks handed to the presenter
MaxPrinted == 2
\* the largest window height a window size message carries
MaxHeight == 4
\* cap of the number of lines of the input
MaxInput == 3
\* cap of the number of events in the record of the applied events
MaxApplied == 4

(* ---------------------------- constants ------------------------------- *)

\* time.Second, in model time units (half seconds)
Second == 2
\* ev.Elapsed is carried as a count of 1/ElapsedDenom seconds
ElapsedDenom == 2
\* the saturated result of time.Since for the zero time
MaxDuration == 1000000
\* the zero time.Time
ZeroTime == -1
\* the root node and the nil node reference
ROOT == 0
NIL == -1

(* ------------------------------ inputs -------------------------------- *)

TerminalActions == {"pass", "fail", "skip"}
AllActions == {"start", "run", "pause", "cont", "bench", "output"} \cup TerminalActions

\* the events of a go test -json stream over the given packages, tests, actions,
\* elapsed values and output texts: elapsed on terminal actions, text on output
EventsOver(pkgs, tests, actions, elapsed, texts) ==
    [Action : actions \ {"output"}, Package : pkgs, Test : tests, Elapsed : {0}, Output : {<<>>}]
    \cup [Action : actions \cap TerminalActions, Package : pkgs, Test : tests,
          Elapsed : elapsed, Output : {<<>>}]
    \cup [Action : actions \cap {"output"}, Package : pkgs, Test : tests,
          Elapsed : {0}, Output : texts]

Ev(action, test, elapsed) ==
    [Action |-> action, Package |-> <<"p">>, Test |-> test, Elapsed |-> elapsed, Output |-> <<>>]

VARIABLES
    nodes,      \* the arena of node objects, by id; nodes[ROOT] is model.root
    nextId,     \* the id of the next node object nodeFor allocates
    passes, fails, skips, total,
    flags,      \* the parsed command line flags
    now,        \* the wall clock
    printed,    \* the blocks handed to prog.Println, in order
    phase,      \* "run" while the event loop runs, "summary" while the command of the
                \* Done message is pending, "quit" once the loop has ended, "final"
                \* after main's final pass
    overallFail,     \* model.overallFail
    windowHeight,    \* model.windowHeight
    maxPrintedLines, \* model.maxPrintedLines
    visible,    \* the nodes the last fitted render printed, in order
    rows,       \* the lines the last fitted render printed (0 after a change of
                \* the window size)
    input,      \* the lines of the input
    rd,         \* how many lines of the input the reader has consumed
    msgs,       \* the message in flight from the reader to the update loop, if any
    passthrough, \* the lines the reader has handed to prog.Println, in order
    applied,    \* the events model.Update has applied, in order
    summaries,  \* how many times the final summary text was emitted
    deliveries, \* per node: how often its buffer was merged into its parent's buffer or
                \* handed to the presenter
    firstFor,   \* per (Package, Test): the node the first event with that pair resolved to
    scen        \* per scenario: how many of its events the run has applied so far, in
                \* order and with no other event; -1 once the run has left the scenario

\* the fields of the view
viewVars == <<windowHeight, maxPrintedLines, visible, rows>>

\* the reader, the conduit and what went through it
streamVars == <<input, rd, msgs, passthrough, applied>>

vars == <<nodes, nextId, passes, fails, skips, total, flags, now, printed, phase,
          overallFail, windowHeight, maxPrintedLines, visible, rows,
          input, rd, msgs, passthrough, applied, summaries,
          deliveries, firstFor, scen>>

(* ------------------------------ helpers ------------------------------- *)

\* the node object nodeFor builds (model.go:84-91); unset fields have Go's zero values
NewNode(name, parent, isTest, lvl) ==
    [name |-> name, parent |-> parent, isTest |-> isTest, lvl |-> lvl,
     start |-> now, firstStart |-> now, status |-> "", done |-> FALSE,
     doneTs |-> ZeroTime, children |-> <<>>, outputBuf |-> [nil |-> TRUE, data |-> <<>>],
     elapsed |-> 0, msg |-> <<>>]

\* model.root: the zero node
RootNode ==
    [name |-> <<>>, parent |-> NIL, isTest |-> FALSE, lvl |-> 0,
     start |-> ZeroTime, firstStart |-> ZeroTime, status |-> "", done |-> FALSE,
     doneTs |-> ZeroTime, children |-> <<>>, outputBuf |-> [nil |-> TRUE, data |-> <<>>],
     elapsed |-> 0, msg |-> <<>>]

\* the ids of the node objects allocated so far
Allocated == DOMAIN nodes

\* strings.Join(parts, "/"), on names kept as segment sequences
RECURSIVE Join(_)
Join(parts) ==
    IF parts = <<>> THEN <<>> ELSE Head(parts) \o Join(Tail(parts))

\* strings.Split(ev.Test, "/") with the empty test giving no parts (model.go:60-63)
SplitTest(test) == [i \in 1..Len(test) |-> <<test[i]>>]

\* nameParts of an event (model.go:60-64): the package, then the test's segments
NameParts(ev) == <<ev.Package>> \o SplitTest(ev.Test)

\* the smallest element of a non-empty set of integers
Min(S) == CHOOSE x \in S : \A y \in S : x <= y

\* the first child of n, in list order, with the given name; NIL if none
ChildNamed(ns, n, name) ==
    LET s == ns[n].children
        I == {i \in 1..Len(s) : ns[s[i]].name = name}
    IN IF I = {} THEN NIL ELSE s[Min(I)]

\* looking for a child named by the first part only
FindChildPrefixes_FirstOnly(ns, n, nameParts) ==
    {j \in 1..1 : ChildNamed(ns, n, Join(SubSeq(nameParts, 1, j))) # NIL}

\* the prefix lengths findChild tries, in order, until one names a child
FindChildPrefixes(ns, n, nameParts) ==
    {j \in 1..Len(nameParts) : ChildNamed(ns, n, Join(SubSeq(nameParts, 1, j))) # NIL}

\* node.findChild: the child named by the shortest matching prefix of nameParts and
\* the unused parts, or NIL and all the parts
FindChild(ns, n, nameParts) ==
    LET J == FindChildPrefixes(ns, n, nameParts)
    IN IF J = {}
       THEN [node |-> NIL, rest |-> nameParts]
       ELSE [node |-> ChildNamed(ns, n, Join(SubSeq(nameParts, 1, Min(J)))),
             rest |-> SubSeq(nameParts, Min(J) + 1, Len(nameParts))]

\* the loop of nodeFor (model.go:68-71)
RECURSIVE Walk(_, _, _, _)
Walk(ns, last, next, nameParts) ==
    IF Len(nameParts) > 0 /\ next # NIL
    THEN LET r == FindChild(ns, next, nameParts)
         IN Walk(ns, next, r.node, r.rest)
    ELSE [last |-> last, next |-> next, rest |-> nameParts]

\* naming the new node by the first remaining part only, one node per segment
NewNodeName_FirstPart(nameParts) == Head(nameParts)

\* the name nodeFor gives the node it creates: the remaining parts joined by "/"
NewNodeName(nameParts) == Join(nameParts)

\* model.nodeFor: the node of the event, created under the deepest node found when
\* the walk ends on no node.  Gives the arena, the node and whether it was created.
NodeFor(ns, id, ev) ==
    LET w == Walk(ns, NIL, ROOT, NameParts(ev))
    IN IF w.next # NIL
       THEN [ns |-> ns, node |-> w.next, created |-> FALSE]
       ELSE LET n == NewNode(NewNodeName(w.rest), w.last, ev.Test # <<>>, ns[w.last].lvl + 1)
                ns1 == [i \in DOMAIN ns \cup {id} |-> IF i = id THEN n ELSE ns[i]]
            IN [ns |-> [ns1 EXCEPT ![w.last].children = Append(@, id)],
                node |-> id, created |-> TRUE]

(* ------------------------------- time --------------------------------- *)

\* time.Since(t): saturated for the zero time
Since(t) == IF t = ZeroTime THEN MaxDuration ELSE now - t

\* time.Time.Compare
Compare(a, b) == IF a < b THEN -1 ELSE IF a > b THEN 1 ELSE 0

\* time.Duration(ev.Elapsed) * time.Second: truncating before the multiplication
DurationOf_TruncFirst(e) == (e \div ElapsedDenom) * Second

\* time.Duration(ev.Elapsed * float64(time.Second)) (model.go:102), truncating
DurationOf(e) == (e * Second) \div ElapsedDenom

(* ---------------------------- drop and sort --------------------------- *)

\* drop with the slow test protected unless include-slow is set
Drop_SlowUnlessIncluded(ns, n) ==
    IF ~ns[n].isTest THEN FALSE
    ELSE IF ~flags.includeSlow /\ ns[n].elapsed > flags.slowThreshold THEN FALSE
    ELSE IF Len(ns[n].children) > 0 THEN FALSE
    ELSE IF ~flags.includeSkipped /\ ns[n].status = "skip" THEN TRUE
    ELSE IF ~flags.includePassed /\ ns[n].status = "pass" THEN TRUE
    ELSE FALSE

\* drop with the failed test treated as the passed one
Drop_FailedToo(ns, n) ==
    IF ~ns[n].isTest THEN FALSE
    ELSE IF flags.includeSlow /\ ns[n].elapsed > flags.slowThreshold THEN FALSE
    ELSE IF Len(ns[n].children) > 0 THEN FALSE
    ELSE IF ~flags.includeSkipped /\ ns[n].status = "skip" THEN TRUE
    ELSE IF ~flags.includePassed /\ ns[n].status \in {"pass", "fail"} THEN TRUE
    ELSE FALSE

\* drop with the test protected from the threshold on, not only above it
Drop_SlowAtThreshold(ns, n) ==
    IF ~ns[n].isTest THEN FALSE
    ELSE IF flags.includeSlow /\ ns[n].elapsed >= flags.slowThreshold THEN FALSE
    ELSE IF Len(ns[n].children) > 0 THEN FALSE
    ELSE IF ~flags.includeSkipped /\ ns[n].status = "skip" THEN TRUE
    ELSE IF ~flags.includePassed /\ ns[n].status = "pass" THEN TRUE
    ELSE FALSE

\* drop (model.go:583-600)
Drop(ns, n) ==
    IF ~ns[n].isTest THEN FALSE
    ELSE IF flags.includeSlow /\ ns[n].elapsed > flags.slowThreshold THEN FALSE
    ELSE IF Len(ns[n].children) > 0 THEN FALSE
    ELSE IF ~flags.includeSkipped /\ ns[n].status = "skip" THEN TRUE
    ELSE IF ~flags.includePassed /\ ns[n].status = "pass" THEN TRUE
    ELSE FALSE

\* the comparison without the step that sorts the droppable nodes to the end
NodeSorter_NoDropOrder(ns, final, a, b) ==
    IF ns[a].done # ns[b].done
    THEN (IF ns[a].done THEN -1 ELSE 1)
    ELSE IF ns[a].done
    THEN Compare(ns[a].doneTs, ns[b].doneTs)
    ELSE Compare(ns[a].firstStart, ns[b].firstStart)

\* nodeSorter(final)(a, b) (model.go:203-231)
NodeSorter(ns, final, a, b) ==
    IF final /\ Drop(ns, a) # Drop(ns, b)
    THEN (IF Drop(ns, a) THEN 1 ELSE -1)
    ELSE IF ns[a].done # ns[b].done
    THEN (IF ns[a].done THEN -1 ELSE 1)
    ELSE IF ns[a].done
    THEN Compare(ns[a].doneTs, ns[b].doneTs)
    ELSE Compare(ns[a].firstStart, ns[b].firstStart)

\* the inner loop of the insertion sort: s[j] moves left past every greater element
RECURSIVE InsertLeft(_, _, _, _)
InsertLeft(ns, final, s, j) ==
    IF j > 1 /\ NodeSorter(ns, final, s[j], s[j - 1]) < 0
    THEN InsertLeft(ns, final, [s EXCEPT ![j] = s[j - 1], ![j - 1] = s[j]], j - 1)
    ELSE s

\* the list left in the order it has
SortStable_Unsorted(ns, final, s) == s

\* slices.SortStableFunc(s, nodeSorter(final)): an insertion sort for the lists of
\* fewer than 20 elements this model holds
RECURSIVE SortFrom(_, _, _, _)
SortFrom(ns, final, s, i) ==
    IF i > Len(s) THEN s ELSE SortFrom(ns, final, InsertLeft(ns, final, s, i), i + 1)

SortStable(ns, final, s) == SortFrom(ns, final, s, 2)

\* the msg a dropped node is left with (model.go:194)
DroppedMsg == <<"dropped">>

\* the backward loop of processChildren (model.go:192-198): at a droppable s[i] the
\* list is cut to s[:i]
RECURSIVE DropLoop(_, _, _)
DropLoop(ns, s, i) ==
    IF i < 1 THEN [ns |-> ns, kids |-> s]
    ELSE IF Drop(ns, s[i])
    THEN DropLoop([ns EXCEPT ![s[i]].msg = DroppedMsg], SubSeq(s, 1, i - 1), i - 1)
    ELSE DropLoop(ns, s, i - 1)

\* processChildren(s, final) (model.go:183-201): the list it returns, and the arena
ProcessChildren(ns, s, final) ==
    IF Len(s) = 0 THEN [ns |-> ns, kids |-> s]
    ELSE LET sorted == SortStable(ns, final, s)
         IN IF final THEN DropLoop(ns, sorted, Len(sorted)) ELSE [ns |-> ns, kids |-> sorted]

\* node.processChildren(final, recurse): the children first, then the sort and the cut
RECURSIVE NodeProcessChildren(_, _, _, _)
RECURSIVE ProcessEach(_, _, _, _, _)
ProcessEach(ns, s, i, final, recurse) ==
    IF i > Len(s) THEN ns
    ELSE ProcessEach(NodeProcessChildren(ns, s[i], final, recurse), s, i + 1, final, recurse)

NodeProcessChildren(ns, n, final, recurse) ==
    LET s == ns[n].children
    IN IF Len(s) = 0 THEN ns
       ELSE LET ns1 == IF recurse THEN ProcessEach(ns, s, 1, final, recurse) ELSE ns
                sorted == SortStable(ns1, final, s)
                r == IF final THEN DropLoop(ns1, sorted, Len(sorted))
                     ELSE [ns |-> ns1, kids |-> sorted]
            IN [r.ns EXCEPT ![n].children = r.kids]

(* -------------------------------- view -------------------------------- *)

\* the loop of collectNodes (model.go:436-458): the top of the stack is the slice
\* in work; its first node goes to the list, and its children on the stack
RECURSIVE CollectLoop(_, _, _)
CollectLoop(ns, stack, l) ==
    IF stack = <<>> THEN l
    ELSE LET top == Len(stack)
             sl == stack[top]
         IN IF sl = <<>>
            THEN CollectLoop(ns, SubSeq(stack, 1, top - 1), l)
            ELSE LET n == Head(sl)
                     st1 == [stack EXCEPT ![top] = Tail(sl)]
                 IN CollectLoop(ns,
                                IF Len(ns[n].children) > 0
                                THEN Append(st1, ns[n].children) ELSE st1,
                                Append(l, n))

\* collectNodes(nodes)
CollectNodes(ns, kids) == CollectLoop(ns, <<kids>>, <<>>)

\* statusRank2
StatusRank2(st) ==
    IF st \in {"pass", "pause", "skip"} THEN 1
    ELSE IF st = "fail" THEN 4
    ELSE IF st \in {"cont", "start", "run", "bench"} THEN 5
    ELSE 0

\* statusRank
StatusRank(st) ==
    IF st \in {"pass", "pause", "skip"} THEN 1
    ELSE IF st = "fail" THEN 5
    ELSE IF st \in {"cont", "start", "run", "bench"} THEN 5
    ELSE 0

\* the comparison with the operands of the status rank swapped
ElideCompare_ActiveFirst(ns, a, b) ==
    IF StatusRank(ns[b].status) # StatusRank(ns[a].status)
    THEN StatusRank(ns[b].status) - StatusRank(ns[a].status)
    ELSE IF ns[b].lvl # ns[a].lvl THEN ns[b].lvl - ns[a].lvl
    ELSE IF StatusRank2(ns[a].status) # StatusRank2(ns[b].status)
    THEN StatusRank2(ns[a].status) - StatusRank2(ns[b].status)
    ELSE IF Compare(ns[a].doneTs, ns[b].doneTs) # 0 THEN Compare(ns[a].doneTs, ns[b].doneTs)
    ELSE Compare(ns[a].firstStart, ns[b].firstStart)

\* the comparison in the order of the comment above it: deepest first, then by status
ElideCompare_DeepestFirst(ns, a, b) ==
    IF ns[b].lvl # ns[a].lvl THEN ns[b].lvl - ns[a].lvl
    ELSE IF StatusRank(ns[a].status) # StatusRank(ns[b].status)
    THEN StatusRank(ns[a].status) - StatusRank(ns[b].status)
    ELSE IF StatusRank2(ns[a].status) # StatusRank2(ns[b].status)
    THEN StatusRank2(ns[a].status) - StatusRank2(ns[b].status)
    ELSE IF Compare(ns[a].doneTs, ns[b].doneTs) # 0 THEN Compare(ns[a].doneTs, ns[b].doneTs)
    ELSE Compare(ns[a].firstStart, ns[b].firstStart)

\* the comparison of two candidates in elide (model.go:344-369)
ElideCompare(ns, a, b) ==
    IF StatusRank(ns[a].status) # StatusRank(ns[b].status)
    THEN StatusRank(ns[a].status) - StatusRank(ns[b].status)
    ELSE IF ns[b].lvl # ns[a].lvl THEN ns[b].lvl - ns[a].lvl
    ELSE IF StatusRank2(ns[a].status) # StatusRank2(ns[b].status)
    THEN StatusRank2(ns[a].status) - StatusRank2(ns[b].status)
    ELSE IF Compare(ns[a].doneTs, ns[b].doneTs) # 0 THEN Compare(ns[a].doneTs, ns[b].doneTs)
    ELSE Compare(ns[a].firstStart, ns[b].firstStart)

\* slices.SortStableFunc(candidates, ...): the insertion sort, as for the children
RECURSIVE ElideInsertLeft(_, _, _)
ElideInsertLeft(ns, s, j) ==
    IF j > 1 /\ ElideCompare(ns, s[j], s[j - 1]) < 0
    THEN ElideInsertLeft(ns, [s EXCEPT ![j] = s[j - 1], ![j - 1] = s[j]], j - 1)
    ELSE s

RECURSIVE ElideSortFrom(_, _, _)
ElideSortFrom(ns, s, i) ==
    IF i > Len(s) THEN s ELSE ElideSortFrom(ns, ElideInsertLeft(ns, s, i), i + 1)

\* the candidates without the nodes of level 1
Candidates_BelowTopLevel(ns, l) ==
    LET I == {i \in 1..Len(l) : ns[l[i]].lvl > 1}
        F[i \in 0..Len(l)] ==
            IF i = 0 THEN <<>> ELSE IF i \in I THEN Append(F[i - 1], l[i]) ELSE F[i - 1]
    IN ElideSortFrom(ns, F[Len(l)], 2)

\* the candidates of elide, in the order it removes them: every element of the list
\* (model.go:339-369)
Candidates(ns, l) == ElideSortFrom(ns, l, 2)

\* the position of the node e in the list l, 0 if it is not in it
PosIn(l, e) ==
    IF \E i \in 1..Len(l) : l[i] = e THEN CHOOSE i \in 1..Len(l) : l[i] = e ELSE 0

\* the list without the elements at the positions from..to
Without(l, from, to) == SubSeq(l, 1, from - 1) \o SubSeq(l, to + 1, Len(l))

\* removing the candidate alone, its descendants left in the list
RemoveWithRun_Alone(ns, l, e) ==
    LET k == PosIn(l, e)
    IN IF k = 0 THEN l ELSE Without(l, k, k)

\* one round of the removal loop (model.go:377-388): the elements that follow e with
\* a greater level go, up to the first that has not, then e itself; nothing happens
\* for an element the list holds no more
RemoveWithRun(ns, l, e) ==
    LET k == PosIn(l, e)
    IN IF k = 0 THEN l
       ELSE LET j == CHOOSE x \in k..Len(l) :
                         /\ \A y \in (k + 1)..x : ns[l[y]].lvl > ns[e].lvl
                         /\ (x < Len(l) => ns[l[x + 1]].lvl <= ns[e].lvl)
            IN Without(l, k, j)

\* the removal loop (model.go:372-389): the list it leaves, and for every candidate
\* it removed the list as it was when the candidate's turn came
RECURSIVE RemoveLoop(_, _, _, _, _, _)
RemoveLoop(ns, l, cands, i, max, picked) ==
    IF i > Len(cands) \/ Len(l) <= max THEN [l |-> l, picked |-> picked]
    ELSE RemoveLoop(ns, RemoveWithRun(ns, l, cands[i]), cands, i + 1, max,
                    IF PosIn(l, cands[i]) # 0
                    THEN Append(picked, [node |-> cands[i], before |-> l])
                    ELSE picked)

\* elide(l, max), with the record of its removals
ElideRun(ns, l, max) ==
    IF Len(l) <= max THEN [l |-> l, picked |-> <<>>]
    ELSE RemoveLoop(ns, l, Candidates(ns, l), 1, IF max < 0 THEN 0 ELSE max, <<>>)

\* elide(l, max)
Elide(ns, l, max) == ElideRun(ns, l, max).l

\* the blank lines render adds, with none added
Padding_None(printedLines, maxPrinted) == 0

\* the blank lines render adds below the nodes (model.go:490-497)
Padding(printedLines, maxPrinted) ==
    IF printedLines >= maxPrinted THEN 0 ELSE maxPrinted - printedLines

\* the render with an elision that takes the nodes out of the child lists of the tree
RenderFitted_ElidesTree(ns, height, maxPrinted) ==
    LET all == CollectNodes(ns, ns[ROOT].children)
        l == Elide(ns, all, height - 2)
        printedLines == Len(l) + 2
        pad == Padding(printedLines, maxPrinted)
        shown(c) == \E i \in 1..Len(l) : l[i] = c
    IN IF Len(all) = 0
       THEN [ns |-> ns, list |-> <<>>, lines |-> <<>>, maxPrinted |-> maxPrinted]
       ELSE [ns |-> [n \in DOMAIN ns |->
                        [ns[n] EXCEPT !.children = SelectSeq(@, shown)]],
             list |-> l,
             lines |-> [i \in 1..Len(l) |-> "node"] \o [i \in 1..pad |-> ""]
                       \o <<"", "summary">>,
             maxPrinted |-> IF printedLines >= maxPrinted THEN printedLines ELSE maxPrinted]

\* model.render(true): the arena after it (collectNodes, elide and printNode write to
\* the list and never to a node), the nodes it prints, the lines of its text (one per
\* node, the padding, the blank line and the summary line), and maxPrintedLines after it
RenderFitted(ns, height, maxPrinted) ==
    LET all == CollectNodes(ns, ns[ROOT].children)
        l == Elide(ns, all, height - 2)
        printedLines == Len(l) + 2
        pad == Padding(printedLines, maxPrinted)
    IN IF Len(all) = 0
       THEN [ns |-> ns, list |-> <<>>, lines |-> <<>>, maxPrinted |-> maxPrinted]
       ELSE [ns |-> ns,
             list |-> l,
             lines |-> [i \in 1..Len(l) |-> "node"] \o [i \in 1..pad |-> ""]
                       \o <<"", "summary">>,
             maxPrinted |-> IF printedLines >= maxPrinted THEN printedLines ELSE maxPrinted]

(* ------------------------------- output ------------------------------- *)

\* the regexp classes of packageSummaryPattern: \s, \S, [msh\d\.] and .
IsSpace(c) == c \in {" ", "\t", "\n", "\r", "\f"}
NonSpace(c) == ~IsSpace(c)
InTimeClass(c) == c \in {"m", "s", "h", ".", "0", "1", "2", "3", "4", "5", "6", "7", "8", "9"}
NotNewline(c) == c # "\n"

\* the end of the longest run of characters satisfying P that starts at s[i]
\* (i - 1 when the run is empty): what a greedy P* or P+ takes first
RunEnd(s, i, P(_)) ==
    CHOOSE e \in (i - 1)..Len(s) :
        /\ \A k \in i..e : P(s[k])
        /\ (e < Len(s) => ~P(s[e + 1]))

NoMatch == [ok |-> FALSE, msg |-> <<>>]

\* (\s(.*))?\n at s[x]: the group first, then the bare newline
MatchTail(s, x) ==
    LET y == RunEnd(s, x + 1, NotNewline)
    IN IF x <= Len(s) /\ IsSpace(s[x]) /\ y + 1 <= Len(s) /\ s[y + 1] = "\n"
       THEN [ok |-> TRUE, msg |-> SubSeq(s, x + 1, y)]
       ELSE IF x <= Len(s) /\ s[x] = "\n"
       THEN [ok |-> TRUE, msg |-> <<>>]
       ELSE NoMatch

\* \t\S+(\t[msh\d\.]*)?(\s(.*))?\n with the tab at s[t].  A shorter \S+ or class run
\* is followed by a non-space character, which nothing after it in the pattern
\* matches, so only the longest runs are tried.
MatchFromTab(s, t) ==
    IF ~(t <= Len(s) /\ s[t] = "\t") THEN NoMatch
    ELSE LET e == RunEnd(s, t + 1, NonSpace)
             q == e + 1
             withTime == IF q <= Len(s) /\ s[q] = "\t"
                         THEN MatchTail(s, RunEnd(s, q + 1, InTimeClass) + 1)
                         ELSE NoMatch
         IN IF e < t + 1 THEN NoMatch
            ELSE IF withTime.ok THEN withTime
            ELSE MatchTail(s, q)

\* packageSummaryPattern.FindStringSubmatch(s): whether it matched, and matches[4].
\* ^(.{4})?\t\S+(\t[msh\d\.]*)?(\s(.*))?\n, the 4-character group tried first
PackageSummaryMatch(s) ==
    LET withPrefix == IF Len(s) >= 5 /\ \A k \in 1..4 : NotNewline(s[k])
                      THEN MatchFromTab(s, 5) ELSE NoMatch
    IN IF withPrefix.ok THEN withPrefix ELSE MatchFromTab(s, 1)

\* strings.HasPrefix
HasPrefix(s, pre) == Len(s) >= Len(pre) /\ SubSeq(s, 1, Len(pre)) = pre

\* node.append
NodeAppend(ns, n, s) ==
    [ns EXCEPT ![n].outputBuf = [nil |-> FALSE, data |-> @.data \o s]]

\* node.prepend writing the text after the buffer
NodePrepend_Appends(ns, n, s) ==
    [ns EXCEPT ![n].outputBuf = [nil |-> FALSE, data |-> @.data \o s]]

\* node.prepend
NodePrepend(ns, n, s) ==
    [ns EXCEPT ![n].outputBuf = [nil |-> FALSE, data |-> s \o @.data]]

\* node.output
NodeOutput(ns, n, s) ==
    IF ns[n].lvl = 1
    THEN (IF PackageSummaryMatch(s).ok THEN [ns EXCEPT ![n].msg = PackageSummaryMatch(s).msg]
          ELSE IF s = <<"P", "A", "S", "S", "\n">> THEN ns
          ELSE IF s = <<"F", "A", "I", "L", "\n">> THEN ns
          ELSE IF s = <<"S", "K", "I", "P", "\n">> THEN ns
          ELSE IF HasPrefix(s, <<"c", "o", "v", "e", "r", "a", "g", "e", ":", " ">>) THEN ns
          ELSE NodeAppend(ns, n, s))
    ELSE IF HasPrefix(s, <<"=", "=", "=">>) THEN ns
    ELSE IF HasPrefix(s, <<"-", "-", "-">>) THEN NodePrepend(ns, n, s)
    ELSE NodeAppend(ns, n, s)

\* the position of the first newline of s, or Len(s) + 1
FirstNewline(s) == RunEnd(s, 1, NotNewline) + 1

\* a line as bufio.ScanLines gives it: without one trailing carriage return
DropCR(line) ==
    IF Len(line) > 0 /\ line[Len(line)] = "\r" THEN SubSeq(line, 1, Len(line) - 1) ELSE line

\* the fixed margin copyWithIndent writes before each line
Margin == <<" ", " ", " ", " ">>

\* copyWithIndent writing each line without the margin
RECURSIVE CopyWithIndent_NoMargin(_)
CopyWithIndent_NoMargin(from) ==
    IF from = <<>> THEN <<>>
    ELSE LET k == FirstNewline(from)
         IN DropCR(SubSeq(from, 1, k - 1)) \o <<"\n">>
            \o CopyWithIndent_NoMargin(SubSeq(from, k + 1, Len(from)))

\* copyWithIndent(from, to): what it writes to `to`
RECURSIVE CopyWithIndent(_)
CopyWithIndent(from) ==
    IF from = <<>> THEN <<>>
    ELSE LET k == FirstNewline(from)
         IN Margin \o DropCR(SubSeq(from, 1, k - 1)) \o <<"\n">>
            \o CopyWithIndent(SubSeq(from, k + 1, Len(from)))

\* the number of lines of a text, as bufio.ScanLines splits it
RECURSIVE LineCount(_)
LineCount(s) ==
    IF s = <<>> THEN 0
    ELSE 1 + LineCount(SubSeq(s, FirstNewline(s) + 1, Len(s)))

\* strings.TrimRight(s, "\n")
RECURSIVE TrimRightNewlines(_)
TrimRightNewlines(s) ==
    IF Len(s) > 0 /\ s[Len(s)] = "\n" THEN TrimRightNewlines(SubSeq(s, 1, Len(s) - 1)) ELSE s

(* ---------------------------- processEvent ---------------------------- *)

\* the switch with a run event starting the node afresh
ApplyAction_RunRestarts(ns, c, ev) ==
    LET ns1 == [ns EXCEPT ![c].status = ev.Action]
    IN IF ev.Action \in TerminalActions
       THEN [ns1 EXCEPT ![c].done = TRUE, ![c].doneTs = now]
       ELSE IF ev.Action = "pause"
       THEN (IF ns1[c].isTest
             THEN [ns1 EXCEPT ![c].elapsed = Since(ns1[c].start), ![c].start = now]
             ELSE ns1)
       ELSE IF ev.Action = "cont"
       THEN [ns1 EXCEPT ![c].start = now]
       ELSE IF ev.Action = "run"
       THEN [ns1 EXCEPT ![c].done = FALSE]
       ELSE ns1

\* the switch with the skip case leaving done as it is
ApplyAction_SkipNotDone(ns, c, ev) ==
    LET ns1 == [ns EXCEPT ![c].status = ev.Action]
    IN IF ev.Action \in {"pass", "fail"}
       THEN [ns1 EXCEPT ![c].done = TRUE, ![c].doneTs = now]
       ELSE IF ev.Action = "pause"
       THEN (IF ns1[c].isTest
             THEN [ns1 EXCEPT ![c].elapsed = Since(ns1[c].start), ![c].start = now]
             ELSE ns1)
       ELSE IF ev.Action = "cont"
       THEN [ns1 EXCEPT ![c].start = now]
       ELSE ns1

\* the switch of processEvent on the node (model.go:112-144), counters aside
ApplyAction(ns, c, ev) ==
    LET ns1 == [ns EXCEPT ![c].status = ev.Action]
    IN IF ev.Action \in TerminalActions
       THEN [ns1 EXCEPT ![c].done = TRUE, ![c].doneTs = now]
       ELSE IF ev.Action = "pause"
       THEN (IF ns1[c].isTest
             THEN [ns1 EXCEPT ![c].elapsed = Since(ns1[c].start), ![c].start = now]
             ELSE ns1)
       ELSE IF ev.Action = "cont"
       THEN [ns1 EXCEPT ![c].start = now]
       ELSE ns1

\* counting the tests below a package node only
CounterInc_BelowPackage(ns, c, ev, action) ==
    IF ev.Action = action /\ ns[c].isTest /\ ns[c].lvl > 1 THEN 1 ELSE 0

\* what the case of the switch for one terminal action adds to its own counter
\* (m.fails++, m.skips++, m.passes++)
CounterInc(ns, c, ev, action) ==
    IF ev.Action = action /\ ns[c].isTest THEN 1 ELSE 0

\* m.total++ placed outside the isTest condition of its case
TotalInc_Unguarded(ns, c, ev) ==
    IF ev.Action \in TerminalActions THEN 1 ELSE 0

\* what the switch adds to m.total: the m.total++ of the fail, skip and pass cases
TotalInc(ns, c, ev) ==
    IF ev.Action \in {"fail", "skip", "pass"} /\ ns[c].isTest THEN 1 ELSE 0

\* the children of a done node sorted as on any other event, none of them dropped
DropChildren_SortOnly(ns, c) ==
    IF ns[c].done
    THEN LET r == ProcessChildren(ns, ns[c].children, FALSE)
         IN [r.ns EXCEPT ![c].children = r.kids]
    ELSE ns

\* the final sort and drop of the children of a done node (model.go:146-149)
DropChildren(ns, c) ==
    IF ns[c].done
    THEN LET r == ProcessChildren(ns, ns[c].children, TRUE)
         IN [r.ns EXCEPT ![c].children = r.kids]
    ELSE ns

\* the output finalization without the test of the drop rule
Finalize_MergeDropped(ns, c) ==
    LET buf == ns[c].outputBuf
        par == ns[c].parent
    IN IF ns[c].done /\ ~buf.nil
       THEN IF par # NIL /\ ns[par].isTest
            THEN [ns |-> [ns EXCEPT
                             ![par].outputBuf = [nil |-> FALSE,
                                                 data |-> @.data \o CopyWithIndent(buf.data)],
                             ![c].outputBuf = [nil |-> TRUE, data |-> <<>>]],
                  out |-> <<>>, returned |-> FALSE, delivered |-> TRUE]
            ELSE [ns |-> ns, out |-> <<TrimRightNewlines(buf.data)>>, returned |-> TRUE,
                  delivered |-> TRUE]
       ELSE [ns |-> ns, out |-> <<>>, returned |-> FALSE, delivered |-> FALSE]

\* the output finalization of processEvent (model.go:151-174): the arena, the text
\* handed to the presenter, whether processEvent returns there, and whether the
\* node's buffer was merged or handed over
Finalize(ns, c) ==
    LET buf == ns[c].outputBuf
        par == ns[c].parent
    IN IF ns[c].done /\ ~buf.nil
       THEN IF ~Drop(ns, c)
            THEN IF par # NIL /\ ns[par].isTest
                 THEN [ns |-> [ns EXCEPT
                                  ![par].outputBuf = [nil |-> FALSE,
                                                      data |-> @.data \o CopyWithIndent(buf.data)],
                                  ![c].outputBuf = [nil |-> TRUE, data |-> <<>>]],
                       out |-> <<>>, returned |-> FALSE, delivered |-> TRUE]
                 ELSE [ns |-> ns, out |-> <<TrimRightNewlines(buf.data)>>, returned |-> TRUE,
                       delivered |-> TRUE]
            ELSE [ns |-> [ns EXCEPT ![c].outputBuf = [nil |-> TRUE, data |-> <<>>]],
                  out |-> <<>>, returned |-> FALSE, delivered |-> FALSE]
       ELSE [ns |-> ns, out |-> <<>>, returned |-> FALSE, delivered |-> FALSE]

\* the re-sort of the node's siblings (model.go:176-178)
SortSiblings(ns, c) ==
    LET par == ns[c].parent
        r == ProcessChildren(ns, ns[par].children, FALSE)
    IN [r.ns EXCEPT ![par].children = r.kids]

\* the overwrite of elapsed by every event, also by one that carries none
SetElapsed_Unguarded(ns, c, ev) ==
    [ns EXCEPT ![c].elapsed = DurationOf(ev.Elapsed), ![c].start = ZeroTime]

\* the overwrite of elapsed by an event that carries one (model.go:101-104)
SetElapsed(ns, c, ev) ==
    IF ev.Elapsed > 0
    THEN [ns EXCEPT ![c].elapsed = DurationOf(ev.Elapsed), ![c].start = ZeroTime]
    ELSE ns

\* model.processEvent on the arena: the arena, the text handed to the presenter, and
\* whether the node's buffer was merged or handed over
ApplyEvent(ns, c, ev) ==
    LET ns1 == SetElapsed(ns, c, ev)
    IN IF ev.Action = "output"
       THEN [ns |-> NodeOutput(ns1, c, ev.Output), out |-> <<>>, delivered |-> FALSE]
       ELSE LET ns2 == DropChildren(ApplyAction(ns1, c, ev), c)
                fin == Finalize(ns2, c)
            IN IF fin.returned
               THEN [ns |-> fin.ns, out |-> fin.out, delivered |-> fin.delivered]
               ELSE [ns |-> SortSiblings(fin.ns, c), out |-> <<>>,
                     delivered |-> fin.delivered]

(* ----------------------------- scenarios ------------------------------ *)

\* the event sequences the monitor scen follows
Scenarios ==
    [runPass |-> <<Ev("run", <<"A">>, 0), Ev("pass", <<"A">>, 1)>>,
     startRunPass |-> <<Ev("start", <<>>, 0), Ev("run", <<"A">>, 0), Ev("pass", <<"A">>, 1)>>]

\* the monitor after one more event
ScenNext(sc, ev) ==
    [k \in DOMAIN Scenarios |->
        IF sc[k] >= 0 /\ sc[k] < Len(Scenarios[k]) /\ Scenarios[k][sc[k] + 1] = ev
        THEN sc[k] + 1 ELSE -1]

(* ------------------------------ actions ------------------------------- *)

\* the flags as parseFlags can leave them (the slow threshold at its default)
FlagSets ==
    [includePassed : BOOLEAN, includeSkipped : BOOLEAN, includeSlow : BOOLEAN,
     slowThreshold : {Second}]

\* the defaults of parseFlags
DefaultFlags ==
    [includePassed |-> FALSE, includeSkipped |-> TRUE, includeSlow |-> FALSE,
     slowThreshold |-> Second]

\* newModel, under one of the given flag settings and with one of the given inputs
InitRun(F, I) ==
    /\ nodes = [i \in {ROOT} |-> RootNode]
    /\ nextId = 1
    /\ passes = 0 /\ fails = 0 /\ skips = 0 /\ total = 0
    /\ overallFail = FALSE
    /\ windowHeight = 0 /\ maxPrintedLines = 0
    /\ visible = <<>> /\ rows = 0
    /\ input \in I /\ rd = 0 /\ msgs = <<>>
    /\ passthrough = <<>> /\ applied = <<>>
    /\ summaries = 0
    /\ flags \in F
    /\ now = 0
    /\ printed = <<>>
    /\ phase = "run"
    /\ deliveries = <<>>
    /\ firstFor = <<>>
    /\ scen = [k \in DOMAIN Scenarios |-> 0]

\* newModel, under one of the given flag settings
InitWith(F) == InitRun(F, {<<>>})

\* the flag main reads to choose the exit status: set once a fail event is applied
OverallFail(was, ev) == was \/ ev.Action = "fail"

\* Update on a TestEvent: model.processEvent(ev)
Process(ev) ==
    /\ phase = "run"
    /\ LET r == NodeFor(nodes, nextId, ev)
           c == r.node
           a == ApplyEvent(r.ns, c, ev)
       IN /\ r.created => nextId <= MaxNodes
          /\ TotalInc(r.ns, c, ev) > 0 => total < MaxTotal
          /\ Len(printed) + Len(a.out) <= MaxPrinted
          /\ \A n \in DOMAIN a.ns : LineCount(a.ns[n].outputBuf.data) <= MaxBuf
          /\ nodes' = a.ns
          /\ nextId' = IF r.created THEN nextId + 1 ELSE nextId
          /\ passes' = passes + CounterInc(r.ns, c, ev, "pass")
          /\ fails' = fails + CounterInc(r.ns, c, ev, "fail")
          /\ skips' = skips + CounterInc(r.ns, c, ev, "skip")
          /\ total' = total + TotalInc(r.ns, c, ev)
          /\ printed' = printed \o a.out
          /\ overallFail' = OverallFail(overallFail, ev)
    /\ UNCHANGED <<flags, now, phase, viewVars, summaries>>

\* the node an event resolves to in the current state (NIL if nodeFor would create it)
Resolved(ev) == Walk(nodes, NIL, ROOT, NameParts(ev)).next

\* the event, with the monitors left alone
ProcessEvent(ev) ==
    /\ Process(ev)
    /\ UNCHANGED <<streamVars, deliveries, firstFor, scen>>

\* the event, recording the node that the first event of each (Package, Test) resolved to
ProcessTracked(ev) ==
    /\ Process(ev)
    /\ firstFor' = IF <<ev.Package, ev.Test>> \in DOMAIN firstFor THEN firstFor
                   ELSE [k \in DOMAIN firstFor \cup {<<ev.Package, ev.Test>>} |->
                            IF k \in DOMAIN firstFor THEN firstFor[k]
                            ELSE IF Resolved(ev) = NIL THEN nextId ELSE Resolved(ev)]
    /\ UNCHANGED <<streamVars, deliveries, scen>>

\* the event, followed by the scenario monitor
ProcessScenario(ev) ==
    /\ Process(ev)
    /\ scen' = ScenNext(scen, ev)
    /\ UNCHANGED <<streamVars, deliveries, firstFor>>

\* the event, counting the deliveries of the buffer of its node
ProcessCounted(ev) ==
    /\ Process(ev)
    /\ LET r == NodeFor(nodes, nextId, ev)
           a == ApplyEvent(r.ns, r.node, ev)
       IN deliveries' = [n \in DOMAIN nodes' |->
                            (IF n \in DOMAIN deliveries THEN deliveries[n] ELSE 0)
                            + (IF n = r.node /\ a.delivered THEN 1 ELSE 0)]
    /\ UNCHANGED <<streamVars, firstFor, scen>>

\* the event, added to the record of the applied events
ProcessApplied(ev) ==
    /\ Len(applied) < MaxApplied
    /\ Process(ev)
    /\ applied' = Append(applied, ev)
    /\ UNCHANGED <<input, rd, msgs, passthrough, deliveries, firstFor, scen>>

\* model.View while the loop runs: the fitted render
Render ==
    /\ phase = "run"
    /\ LET r == RenderFitted(nodes, windowHeight, maxPrintedLines)
       IN /\ nodes' = r.ns
          /\ visible' = r.list
          /\ rows' = Len(r.lines)
          /\ maxPrintedLines' = r.maxPrinted
    /\ UNCHANGED <<nextId, passes, fails, skips, total, flags, now, printed, phase,
                   overallFail, windowHeight, streamVars, summaries,
                   deliveries, firstFor, scen>>

\* the window size message that leaves the tracked maximum of printed rows as it is
WindowSize_NoReset(h) ==
    /\ phase = "run"
    /\ windowHeight' = h
    /\ rows' = 0
    /\ UNCHANGED <<nodes, nextId, passes, fails, skips, total, flags, now, printed, phase,
                   overallFail, maxPrintedLines, visible, streamVars, summaries,
                   deliveries, firstFor, scen>>

\* Update on a tea.WindowSizeMsg of the given height (model.go:235-237)
WindowSize(h) ==
    /\ phase = "run"
    /\ windowHeight' = h
    /\ maxPrintedLines' = 0
    /\ rows' = 0
    /\ UNCHANGED <<nodes, nextId, passes, fails, skips, total, flags, now, printed, phase,
                   overallFail, visible, streamVars, summaries,
                   deliveries, firstFor, scen>>

\* the zero TestEvent
ZeroEvent == [Action |-> "", Package |-> <<>>, Test |-> <<>>, Elapsed |-> 0, Output |-> <<>>]

\* the exported fields of TestEvent, the members a line may have
TestEventFields == {"Time", "Action", "Package", "Test", "Elapsed", "Output"}

\* the decoder on one line, with DisallowUnknownFields: a line decodes when it is JSON
\* and has no member that TestEvent has not
Decode(line) ==
    LET ok == line.json /\ line.fields \subseteq TestEventFields
    IN [ok |-> ok, ev |-> IF ok THEN line.ev ELSE ZeroEvent]

\* the body of the scanner loop with the line forgotten when it does not decode
ReadStep_Silent(line) ==
    LET d == Decode(line)
    IN IF d.ok THEN [send |-> <<[kind |-> "event", ev |-> d.ev]>>, print |-> <<>>]
       ELSE [send |-> <<>>, print |-> <<>>]

\* the body of the scanner loop of process: the message it sends to the program, and
\* the text it hands to p.Println
ReadStep(line) ==
    LET d == Decode(line)
    IN IF d.ok THEN [send |-> <<[kind |-> "event", ev |-> d.ev]>>, print |-> <<>>]
       ELSE [send |-> <<>>, print |-> <<line.text>>]

\* a send repeated
Send_Again(q, msg) == q \o <<msg, msg>>

\* p.Send(msg): the message is handed to the update loop
Send(q, msg) == Append(q, msg)

\* the exit status with no os.Exit after the run
ExitStatus_Zero(failed) == 0

\* the exit status main ends with after the run
ExitStatus(failed) == IF failed THEN 1 ELSE 0

\* process reads the next line of the input: p.Send blocks until the update loop has
\* taken the message before
ReadLine ==
    /\ phase = "run"
    /\ rd < Len(input)
    /\ msgs = <<>>
    /\ LET r == ReadStep(input[rd + 1])
       IN /\ msgs' = IF r.send = <<>> THEN msgs ELSE Send(msgs, r.send[1])
          /\ passthrough' = passthrough \o r.print
    /\ rd' = rd + 1
    /\ UNCHANGED <<nodes, nextId, passes, fails, skips, total, flags, now, printed, phase,
                   overallFail, viewVars, input, applied, summaries,
                   deliveries, firstFor, scen>>

\* process at the end of the input: p.Send(Done{})
SendDone ==
    /\ phase = "run"
    /\ rd = Len(input)
    /\ msgs = <<>>
    /\ msgs' = Send(msgs, [kind |-> "done", ev |-> ZeroEvent])
    /\ rd' = rd + 1
    /\ UNCHANGED <<nodes, nextId, passes, fails, skips, total, flags, now, printed, phase,
                   overallFail, viewVars, input, passthrough, applied, summaries,
                   deliveries, firstFor, scen>>

\* Update on the TestEvent the reader has sent
UpdateEvent ==
    /\ msgs # <<>>
    /\ Head(msgs).kind = "event"
    /\ Process(Head(msgs).ev)
    /\ applied' = Append(applied, Head(msgs).ev)
    /\ msgs' = Tail(msgs)
    /\ UNCHANGED <<input, rd, passthrough, deliveries, firstFor, scen>>

\* Update on Done: m.done = true, and the command printFinalSummary is due
UpdateDone ==
    /\ phase = "run"
    /\ msgs # <<>>
    /\ Head(msgs).kind = "done"
    /\ phase' = "summary"
    /\ msgs' = Tail(msgs)
    /\ UNCHANGED <<nodes, nextId, passes, fails, skips, total, flags, now, printed,
                   overallFail, viewVars, input, rd, passthrough, applied, summaries,
                   deliveries, firstFor, scen>>

\* the final summaries one call of model.String() yields: none while the tree is
\* empty, when render returns the empty text
Summaries(ns) == IF Len(CollectNodes(ns, ns[ROOT].children)) = 0 THEN 0 ELSE 1

\* the command printFinalSummary, and the tea.QuitMsg it returns
PrintFinalSummary ==
    /\ phase = "summary"
    /\ maxPrintedLines' = 0
    /\ summaries' = summaries + Summaries(nodes)
    /\ phase' = "quit"
    /\ UNCHANGED <<nodes, nextId, passes, fails, skips, total, flags, now, printed,
                   overallFail, windowHeight, visible, rows, streamVars,
                   deliveries, firstFor, scen>>

\* Update on the key q, esc or ctrl+c: m.done = true and tea.Quit; what the reader
\* is sending, or the command that is due, is lost with the loop
QuitKey ==
    /\ phase \in {"run", "summary"}
    /\ phase' = "quit"
    /\ msgs' = <<>>
    /\ UNCHANGED <<nodes, nextId, passes, fails, skips, total, flags, now, printed,
                   overallFail, viewVars, input, rd, passthrough, applied, summaries,
                   deliveries, firstFor, scen>>

\* time passes between two messages
Tick ==
    /\ phase = "run"
    /\ now < MaxTime
    /\ now' = now + 1
    /\ UNCHANGED <<nodes, nextId, passes, fails, skips, total, flags, printed, phase,
                   overallFail, viewVars, streamVars, summaries,
                   deliveries, firstFor, scen>>

\* main once p.Run has returned: m.root.processChildren(true, true), then the
\* summary on standard output
AfterRun ==
    /\ phase' = "final"
    /\ nodes' = NodeProcessChildren(nodes, ROOT, TRUE, TRUE)
    /\ summaries' = summaries + Summaries(nodes')
    /\ UNCHANGED <<nextId, passes, fails, skips, total, flags, now, printed, overallFail,
                   viewVars, streamVars, deliveries, firstFor, scen>>

\* main after the event loop has ended, whatever ended it
FinalPass ==
    /\ phase = "run"
    /\ AfterRun

\* main once the update loop has ended and p.Run has returned
MainAfterRun ==
    /\ phase = "quit"
    /\ AfterRun

(* --------------------------- specifications --------------------------- *)

\* Spec: the counters.  One package and one test, the state actions that set a
\* status and the three terminal actions, under the default flags.
Events == EventsOver({<<"p">>}, {<<>>, <<"A">>}, {"run", "pause", "pass", "fail", "skip"}, {}, {})

Init == InitWith({DefaultFlags})

Next ==
    \/ \E ev \in Events : ProcessEvent(ev)
    \/ FinalPass

Spec == Init /\ [][Next]_vars

\* SpecPaths: path resolution.  Test paths of up to three segments.
PathEvents ==
    EventsOver({<<"p">>}, {<<>>, <<"A">>, <<"A", "B">>, <<"A", "B", "C">>},
               {"run", "pass"}, {}, {})

NextPaths ==
    \/ \E ev \in PathEvents : ProcessTracked(ev)
    \/ FinalPass

SpecPaths == Init /\ [][NextPaths]_vars

\* SpecDrop: the drop rule.  A test with every outcome, with and without an elapsed
\* value above the slow threshold, its package and a sub-test, under every flag setting.
DropEvents ==
    EventsOver({<<"p">>}, {<<>>}, {"pass"}, {}, {})
    \cup EventsOver({<<"p">>}, {<<"A", "B">>}, {"run"}, {}, {})
    \cup EventsOver({<<"p">>}, {<<"A">>}, {"run", "fail"}, {}, {})
    \cup EventsOver({<<"p">>}, {<<"A">>}, {"pass", "skip"}, {3}, {})

InitDrop == InitWith(FlagSets)

NextDrop ==
    \/ \E ev \in DropEvents : ProcessEvent(ev)
    \/ FinalPass

SpecDrop == InitDrop /\ [][NextDrop]_vars

\* SpecSiblings: the final cut of a child list.  Two tests of one package with every
\* outcome, under every flag setting.
SiblingEvents ==
    EventsOver({<<"p">>}, {<<>>}, {"pass"}, {}, {})
    \cup EventsOver({<<"p">>}, {<<"A">>, <<"B">>}, {"run", "pass", "fail", "skip"}, {}, {})

SpecSiblings ==
    InitDrop /\ [][(\E ev \in SiblingEvents : ProcessEvent(ev)) \/ FinalPass]_vars

\* SpecSlow: the slow test.  Two tests that finish with an elapsed value at the slow
\* threshold and above it, under every flag setting.
SlowEvents ==
    EventsOver({<<"p">>}, {<<>>}, {"pass"}, {}, {})
    \cup EventsOver({<<"p">>}, {<<"A">>}, {"pass", "skip"}, {2, 3}, {})
    \cup EventsOver({<<"p">>}, {<<"B">>}, {"pass"}, {2, 3}, {})

SpecSlow ==
    InitDrop /\ [][(\E ev \in SlowEvents : ProcessEvent(ev)) \/ FinalPass]_vars

\* SpecDiscard: the buffer of a dropped node.  A test and its sub-test write output and
\* finish, under the default flags, which leave the passed tests out.
DiscardEvents ==
    EventsOver({<<"p">>}, {<<>>}, {"run"}, {}, {})
    \cup EventsOver({<<"p">>}, {<<"A">>}, {"run", "pass", "fail", "output"}, {},
                    {<<"x", "\n">>})
    \cup EventsOver({<<"p">>}, {<<"A", "B">>}, {"pass", "output"}, {}, {<<"x", "\n">>})

SpecDiscard == Init /\ [][\E ev \in DiscardEvents : ProcessApplied(ev)]_vars

\* SpecFrame: the output event.  The package p receives its summary line and its test A
\* a plain line, with and without an elapsed value, while A runs and fails.
FrameOutputs ==
    [Action : {"output"}, Package : {<<"p">>}, Test : {<<>>}, Elapsed : {0, 3},
     Output : {<<"o", "k", " ", " ", "\t", "p", "\t", "5", "s", "\t", "c", " ", "m", "\n">>}]
    \cup [Action : {"output"}, Package : {<<"p">>}, Test : {<<"A">>}, Elapsed : {0, 3},
          Output : {<<"x", "\n">>}]

FrameEvents ==
    EventsOver({<<"p">>}, {<<>>}, {"run"}, {}, {})
    \cup EventsOver({<<"p">>}, {<<"A">>}, {"run", "fail"}, {}, {})
    \cup FrameOutputs

SpecFrame == Init /\ [][\E ev \in FrameEvents : ProcessEvent(ev)]_vars

\* SpecScenario: the scenarios, event by event
ScenarioEvents ==
    EventsOver({<<"p">>}, {<<>>, <<"A">>}, {"start", "run", "pause", "pass"}, {1}, {})

NextScenario ==
    \/ \E ev \in ScenarioEvents : ProcessScenario(ev)
    \/ FinalPass

SpecScenario == Init /\ [][NextScenario]_vars

\* SpecOrphans: events whose ancestors have had no event.  Paths of up to two
\* segments, with a line of test output.
OrphanEvents ==
    EventsOver({<<"p">>}, {<<>>, <<"A">>, <<"A", "B">>}, {"pass", "output"}, {},
               {<<"x", "\n">>})
    \cup EventsOver({<<"p">>}, {<<"A", "B">>}, {"run"}, {}, {})

NextOrphans ==
    \/ \E ev \in OrphanEvents : ProcessTracked(ev)
    \/ FinalPass

SpecOrphans == Init /\ [][NextOrphans]_vars

\* SpecSort: the order of siblings.  Two tests of one package that print a line and
\* fail, while time passes.
SortEvents ==
    EventsOver({<<"p">>}, {<<>>}, {"run"}, {}, {})
    \cup EventsOver({<<"p">>}, {<<"A">>, <<"B">>}, {"fail", "output"}, {},
                    {<<"x", "\n">>})

NextSort ==
    \/ \E ev \in SortEvents : ProcessEvent(ev)
    \/ Tick
    \/ FinalPass

SpecSort == Init /\ [][NextSort]_vars

\* SpecLife: the life of one test.  Every action on the test A of the package p.
LifeEvents ==
    EventsOver({<<"p">>}, {<<>>}, {"run"}, {}, {})
    \cup EventsOver({<<"p">>}, {<<"A">>},
                    {"start", "run", "pause", "cont", "bench", "pass", "fail", "output"},
                    {}, {<<"x", "\n">>})

NextLife ==
    \/ \E ev \in LifeEvents : ProcessEvent(ev)
    \/ FinalPass

SpecLife == Init /\ [][NextLife]_vars

\* SpecTimer: the timer of one test.  The test A of the package p runs, pauses,
\* continues and passes, with and without an elapsed value, while time passes.
TimerEvents ==
    EventsOver({<<"p">>}, {<<>>}, {"run"}, {}, {})
    \cup EventsOver({<<"p">>}, {<<"A">>}, {"run", "pause", "cont", "pass"}, {1}, {})

NextTimer ==
    \/ \E ev \in TimerEvents : ProcessEvent(ev)
    \/ Tick
    \/ FinalPass

SpecTimer == Init /\ [][NextTimer]_vars

\* SpecOutput: the output buffers.  The test A of the package p and its subtest B print
\* a plain line or a completion header, and fail; A may be run again.
OutputEvents ==
    EventsOver({<<"p">>}, {<<>>}, {"run"}, {}, {})
    \cup EventsOver({<<"p">>}, {<<"A">>}, {"run", "fail", "output"}, {},
                    {<<"x", "\n">>, <<"-", "-", "-", "\n">>})
    \cup EventsOver({<<"p">>}, {<<"A", "B">>}, {"fail", "output"}, {}, {<<"x", "\n">>})

NextOutput ==
    \/ \E ev \in OutputEvents : ProcessCounted(ev)
    \/ FinalPass

SpecOutput == Init /\ [][NextOutput]_vars

\* SpecHeader: the lines of a buffer.  The test A of the package p and its subtest B
\* print plain lines and completion headers.
HeaderEvents ==
    EventsOver({<<"p">>}, {<<>>}, {"run"}, {}, {})
    \cup EventsOver({<<"p">>}, {<<"A">>, <<"A", "B">>}, {"output"}, {},
                    {<<"x", "\n">>, <<"-", "-", "-", "\n">>})

NextHeader == \E ev \in HeaderEvents : ProcessCounted(ev)

SpecHeader == Init /\ [][NextHeader]_vars

\* SpecMerge: the merge into a parent.  The test A of the package p prints a line; its
\* subtest B prints plain lines and completion headers, and fails.
MergeEvents ==
    EventsOver({<<"p">>}, {<<>>}, {"run"}, {}, {})
    \cup EventsOver({<<"p">>}, {<<"A">>}, {"output"}, {}, {<<"x", "\n">>})
    \cup EventsOver({<<"p">>}, {<<"A", "B">>}, {"fail", "output"}, {},
                    {<<"x", "\n">>, <<"-", "-", "-", "\n">>})

NextMerge == \E ev \in MergeEvents : ProcessCounted(ev)

SpecMerge == Init /\ [][NextMerge]_vars

\* SpecView: the view.  The package p, its test A and the subtest B run and pass, the
\* test C fails, while the window changes its height and the view is rendered.
ViewEvents ==
    EventsOver({<<"p">>}, {<<>>, <<"A">>, <<"A", "B">>}, {"run", "pass"}, {}, {})
    \cup EventsOver({<<"p">>}, {<<"C">>}, {"fail"}, {}, {})

NextView ==
    \/ \E ev \in ViewEvents : ProcessEvent(ev)
    \/ \E h \in 2..MaxHeight : WindowSize(h)
    \/ Render

SpecView == Init /\ [][NextView]_vars

\* SpecRun: the run of the program.  The input holds up to MaxInput lines: events of
\* the package p and of its test A, a line of plain text and a JSON line with a member
\* that TestEvent has not; the reader and the update loop take their steps, a key may
\* end the loop at any time, and main ends the run.
RunEvents ==
    EventsOver({<<"p">>}, {<<>>}, {"fail"}, {}, {})
    \cup EventsOver({<<"p">>}, {<<"A">>}, {"pass", "fail"}, {}, {})

RunLines ==
    [text : {<<"{", "}">>}, json : {TRUE}, fields : {{"Action", "Package", "Test"}},
     ev : RunEvents]
    \cup [text : {<<"{", "?", "}">>}, json : {TRUE}, fields : {{"Action", "Foo"}},
          ev : {ZeroEvent}]
    \cup [text : {<<"x">>}, json : {FALSE}, fields : {{}}, ev : {ZeroEvent}]

Inputs == UNION {[1..n -> RunLines] : n \in 0..MaxInput}

InitInput == InitRun({DefaultFlags}, Inputs)

NextRun ==
    \/ ReadLine
    \/ SendDone
    \/ UpdateEvent
    \/ UpdateDone
    \/ PrintFinalSummary
    \/ QuitKey
    \/ MainAfterRun

SpecRun == InitInput /\ [][NextRun]_vars

\* SpecSummary: the summary lines of go test.  The packages io and p print plain lines
\* and summary lines made of a result prefix or none, the tab, the path of the package,
\* an elapsed time or none, and a trailing message or none.
SummaryPackages == {"io", "p"}

\* the path of a package as the text of a line
PathText == [pk \in SummaryPackages |-> IF pk = "io" THEN <<"i", "o">> ELSE <<"p">>]

ResultPrefixes == {<<>>, <<"o", "k", " ", " ">>}

\* no elapsed time, an empty one and half a unit, each behind its tab
ElapsedTexts == {<<>>, <<"\t">>, <<"\t", "5", "s">>}

TrailingMessages == {<<>>, <<"c", " ", "m">>}

\* the summary line of the given parts; the message, if any, behind a tab
SummaryLine(pre, path, el, m) ==
    pre \o <<"\t">> \o path \o el \o (IF m = <<>> THEN <<>> ELSE <<"\t">> \o m) \o <<"\n">>

\* the output event of a package
OutputEv(pk, text) ==
    [Action |-> "output", Package |-> <<pk>>, Test |-> <<>>, Elapsed |-> 0, Output |-> text]

SummaryEvents ==
    {OutputEv(pk, SummaryLine(pre, PathText[pk], el, m)) :
         pk \in SummaryPackages, pre \in ResultPrefixes, el \in ElapsedTexts,
         m \in TrailingMessages}
    \cup {OutputEv(pk, <<"x", "\n">>) : pk \in SummaryPackages}

NextSummary == \E ev \in SummaryEvents : ProcessEvent(ev)

SpecSummary == Init /\ [][NextSummary]_vars

\* SpecHidden: the view of a failure below a finished or paused node.  The package p,
\* its test A that pauses and the sub-test A/B that fails, and a second package q that
\* passes, while the window changes its height and the view is rendered.
HiddenEvents ==
    EventsOver({<<"p">>}, {<<>>}, {"run", "pass"}, {}, {})
    \cup EventsOver({<<"q">>}, {<<>>}, {"pass"}, {}, {})
    \cup EventsOver({<<"p">>}, {<<"A">>}, {"run", "pause"}, {}, {})
    \cup EventsOver({<<"p">>}, {<<"A", "B">>}, {"fail"}, {}, {})

SpecHidden ==
    Init /\ [][\/ \E ev \in HiddenEvents : ProcessEvent(ev)
               \/ \E h \in 2..MaxHeight : WindowSize(h)
               \/ Render]_vars

(* ------------------------------- claims ------------------------------- *)

\* the nodes still reachable from the root through the child lists
Attached(ns, n) ==
    /\ n # ROOT
    /\ \E i \in 1..Len(ns[ns[n].parent].children) : ns[ns[n].parent].children[i] = n

\* C1: at every point between two events, and after the stream has ended, the total
\* counter equals the sum of the pass, fail and skip counters.
C1_TotalIsSum == total = passes + fails + skips

\* C1 witness: the stream has ended after two tests were counted, one failed and one
\* skipped.
C1_Witness == phase = "final" /\ total = 2 /\ fails = 1 /\ skips = 1

\* the test nodes that have received a terminal event
DoneLeaves == {n \in DOMAIN nodes : nodes[n].isTest /\ nodes[n].done}

\* C2: every test leaf is counted exactly once: the total counter equals the number of
\* test nodes that reached a terminal status.
C2_CountedOnce == total = Cardinality(DoneLeaves)


\* the node of an event: the one nodeFor finds, or the one it is about to allocate
Target(ev) == IF Resolved(ev) = NIL THEN nextId ELSE Resolved(ev)

\* the names on the way from the root down to n
RECURSIVE Chain(_, _)
Chain(ns, n) ==
    IF n = ROOT THEN <<>> ELSE Append(Chain(ns, ns[n].parent), ns[n].name)

\* the stream began with the event of the package itself
PackageFirst ==
    /\ <<<<"p">>, <<>>>> \in DOMAIN firstFor
    /\ firstFor[<<<<"p">>, <<>>>>] = 1

\* C3: path resolution is idempotent over the whole run: while events are applied, a
\* (Package, Test) pair that an earlier event carried still resolves to the node that
\* earlier event resolved to (here even in streams that begin with the package's event).
C3_Idempotent ==
    (phase = "run" /\ PackageFirst) =>
        \A k \in DOMAIN firstFor :
            Walk(nodes, NIL, ROOT, <<k[1]>> \o SplitTest(k[2])).next = firstFor[k]

\* C4: an event whose remaining segments match no existing child makes nodeFor create
\* exactly one node, named by joining all the remaining segments, as a child of the
\* deepest matched node; no other node is created, renamed or moved.
C4_OneJoinedNode ==
    [][\A ev \in PathEvents :
          (ProcessTracked(ev) /\ Resolved(ev) = NIL) =>
              LET w == Walk(nodes, NIL, ROOT, NameParts(ev))
              IN /\ DOMAIN nodes' = DOMAIN nodes \cup {nextId}
                 /\ nextId \notin DOMAIN nodes
                 /\ nodes'[nextId].name = Join(w.rest)
                 /\ nodes'[nextId].parent = w.last
                 /\ Attached(nodes', nextId)
                 /\ Join(Chain(nodes', nextId)) = Join(NameParts(ev))
                 /\ \A n \in DOMAIN nodes :
                       /\ nodes'[n].name = nodes[n].name
                       /\ nodes'[n].parent = nodes[n].parent]_vars

\* C4 witness: the package and A exist, and an event for A/B/C with no event for A/B
\* has created the single child "B/C" of A.
C4_Witness ==
    \E n \in DOMAIN nodes \ {ROOT} :
        /\ Attached(nodes, n)
        /\ nodes[n].name = <<"B", "C">>
        /\ nodes[nodes[n].parent].name = <<"A">>
        /\ Chain(nodes, n) = <<<<"p">>, <<"A">>, <<"B", "C">>>>
        /\ \A m \in DOMAIN nodes : nodes[m].name # <<"B">>

\* an event was applied earlier for the package and for every proper prefix of the test
AncestorsSeen(ev) ==
    \A i \in 0..(Len(ev.Test) - 1) : <<ev.Package, SubSeq(ev.Test, 1, i)>> \in DOMAIN firstFor

\* C5: once an event has been applied for every ancestor prefix of a path, an event for
\* s1/.../sk in package p resolves to a node named sk whose chain from the root is
\* p, s1, ..., s(k-1), one level per segment (here even in streams that begin with the
\* package's event).
C5_LevelPerSegment ==
    [][\A ev \in PathEvents :
          (ProcessTracked(ev) /\ ev.Test # <<>> /\ PackageFirst /\ AncestorsSeen(ev)) =>
              Chain(nodes', Target(ev)) = NameParts(ev)]_vars

\* n is a passed test leaf with an elapsed of 500ms
PassedInHalfSecond(n) ==
    /\ nodes[n].isTest /\ nodes[n].children = <<>>
    /\ nodes[n].done /\ nodes[n].status = "pass"
    /\ nodes[n].elapsed * 2 = Second

\* C6: a terminal event carrying elapsedSeconds = e > 0 leaves its node done, with the
\* event's action as status and an elapsed of exactly e seconds, whatever elapsed was
\* derived earlier.  The events (p, A, run), (p, A, pass, 0.5s) on the empty model yield
\* one leaf, named "p/A", directly under the root, with status pass, elapsed 500ms,
\* total = 1 and passes = 1; preceded by an event of the package p itself they yield
\* the leaf A under the group node p, with the same status, elapsed and counters
\* (both as long as the final pass of main has not run).
C6_TerminalElapsed ==
    /\ [][\A ev \in ScenarioEvents :
             (ProcessScenario(ev) /\ ev.Action \in TerminalActions /\ ev.Elapsed > 0) =>
                 /\ nodes'[Target(ev)].done
                 /\ nodes'[Target(ev)].status = ev.Action
                 /\ nodes'[Target(ev)].elapsed * ElapsedDenom = ev.Elapsed * Second]_vars
    /\ []((phase = "run" /\ scen.runPass = 2) =>
             /\ DOMAIN nodes = {ROOT, 1}
             /\ nodes[ROOT].children = <<1>>
             /\ nodes[1].parent = ROOT /\ nodes[1].name = <<"p", "A">>
             /\ PassedInHalfSecond(1)
             /\ total = 1 /\ passes = 1 /\ fails = 0 /\ skips = 0)
    /\ []((phase = "run" /\ scen.startRunPass = 3) =>
             /\ DOMAIN nodes = {ROOT, 1, 2}
             /\ nodes[ROOT].children = <<1>>
             /\ nodes[1].name = <<"p">> /\ ~nodes[1].isTest /\ nodes[1].children = <<2>>
             /\ nodes[2].parent = 1 /\ nodes[2].name = <<"A">>
             /\ PassedInHalfSecond(2)
             /\ total = 1 /\ passes = 1 /\ fails = 0 /\ skips = 0)

\* C6 witness: the two events of the scenario, and nothing else, have been applied, and
\* the test's node holds the elapsed of the pass event.
C6_Witness == phase = "run" /\ scen.runPass = 2 /\ nodes[1].elapsed = 1 /\ nodes[1].done

\* C6 as stated: after (p, A, run), (p, A, pass, 0.5s) there is one leaf under the group
\* node p, with status pass, elapsed 500ms, total = 1 and passes = 1.
C6_LeafUnderGroup ==
    (phase = "run" /\ scen.runPass = 2) =>
        /\ total = 1 /\ passes = 1
        /\ \E g, n \in DOMAIN nodes \ {ROOT} :
              /\ nodes[g].name = <<"p">> /\ ~nodes[g].isTest
              /\ nodes[n].parent = g /\ Attached(nodes, n)
              /\ PassedInHalfSecond(n)

\* C7: an event one of whose ancestors has had no event is not dropped.  It is applied
\* to the node nodeFor returns for its path, attached to the tree: an action other than
\* output becomes the node's status, a terminal action on a test node adds one to total
\* and to the counter of the outcome, and a line of output is appended to the node's
\* output buffer.
C7_OrphanApplied ==
    [][\A ev \in OrphanEvents :
          (ProcessTracked(ev) /\ ~AncestorsSeen(ev)) =>
              LET x == Target(ev)
                  before == IF x \in DOMAIN nodes THEN nodes[x].outputBuf.data ELSE <<>>
              IN /\ x \in DOMAIN nodes' /\ Attached(nodes', x)
                 /\ Join(Chain(nodes', x)) = Join(NameParts(ev))
                 /\ ev.Action # "output" => nodes'[x].status = ev.Action
                 /\ (ev.Action = "pass" /\ nodes'[x].isTest) =>
                        /\ total' = total + 1 /\ passes' = passes + 1
                        /\ UNCHANGED <<fails, skips>>
                 /\ ev.Action = "output" =>
                        /\ ~nodes'[x].outputBuf.nil
                        /\ nodes'[x].outputBuf.data = before \o ev.Output]_vars

\* C7 witness: with no event for the package p, a pass event for the test A was counted
\* on a node named "p/A" under the root, and a line of output sits in the buffer of
\* the node "p/A/B".
C7_Witness ==
    /\ <<<<"p">>, <<>>>> \notin DOMAIN firstFor
    /\ total = 1 /\ passes = 1
    /\ \E n, m \in DOMAIN nodes :
          /\ nodes[n].parent = ROOT /\ nodes[n].name = <<"p", "A">> /\ nodes[n].status = "pass"
          /\ nodes[m].parent = ROOT /\ nodes[m].name = <<"p", "A", "B">>
          /\ nodes[m].outputBuf.data = <<"x", "\n">>

\* C7 as stated: an event one of whose ancestors has had no event is dropped: applying
\* it changes no counter and no output buffer.
C7_OrphanDropped ==
    [][\A ev \in OrphanEvents :
          (ProcessTracked(ev) /\ ~AncestorsSeen(ev)) =>
              /\ UNCHANGED <<passes, fails, skips, total>>
              /\ \A n \in DOMAIN nodes' :
                    nodes'[n].outputBuf =
                        IF n \in DOMAIN nodes THEN nodes[n].outputBuf
                        ELSE [nil |-> TRUE, data |-> <<>>]]_vars

\* C8: a node leaves its parent's child list only when, at that moment, it is done and
\* has no children: no step, neither the application of an event nor the final pass,
\* removes a node that is not done or that still has children.
C8_RemovedDoneChildless ==
    [][\A n \in DOMAIN nodes \ {ROOT} :
          (Attached(nodes, n) /\ ~Attached(nodes', n)) =>
              /\ nodes'[n].done
              /\ nodes'[n].children = <<>>]_vars

\* C8 witness: a passed leaf has been removed from the child list of its finished
\* parent, and a sibling that is still running has stayed in it.
C8_Witness ==
    \E n, m \in DOMAIN nodes \ {ROOT} :
        /\ ~Attached(nodes, n) /\ nodes[n].done
        /\ nodes[m].parent = nodes[n].parent /\ Attached(nodes, m) /\ ~nodes[m].done
        /\ nodes[nodes[n].parent].done

OutcomeExcluded(n) ==
    \/ nodes[n].status = "skip" /\ ~flags.includeSkipped
    \/ nodes[n].status = "pass" /\ ~flags.includePassed

\* C10: the drop predicate holds for a finished test node exactly when it has no
\* children, its outcome is skip with skipped-inclusion disabled or pass with
\* passed-inclusion disabled, and, if the include-slow option is set, its elapsed does
\* not exceed the slow threshold (without the option elapsed plays no part).  It never
\* holds for a group node or for a node with status fail.
C10_DropRule ==
    \A n \in DOMAIN nodes :
        /\ (nodes[n].isTest /\ nodes[n].done) =>
               (Drop(nodes, n) <=>
                    /\ nodes[n].children = <<>>
                    /\ flags.includeSlow => nodes[n].elapsed <= flags.slowThreshold
                    /\ OutcomeExcluded(n))
        /\ ~nodes[n].isTest => ~Drop(nodes, n)
        /\ nodes[n].status = "fail" => ~Drop(nodes, n)

\* C10 witness: without the include-slow option, a passed test whose elapsed exceeds
\* the slow threshold satisfies the drop predicate.
C10_Witness ==
    /\ ~flags.includeSlow
    /\ \E n \in DOMAIN nodes :
          /\ nodes[n].done /\ nodes[n].status = "pass"
          /\ nodes[n].elapsed > flags.slowThreshold
          /\ Drop(nodes, n)

\* C10 as stated: the drop predicate holds for a finished test node exactly when it has
\* no children, its elapsed does not exceed the slow threshold unless the show-slow
\* option is set, and its outcome is skip with skipped-inclusion disabled or pass with
\* passed-inclusion disabled.
C10_SlowUnlessOverride ==
    \A n \in DOMAIN nodes :
        (nodes[n].isTest /\ nodes[n].done) =>
            (Drop(nodes, n) <=>
                 /\ nodes[n].children = <<>>
                 /\ flags.includeSlow \/ nodes[n].elapsed <= flags.slowThreshold
                 /\ OutcomeExcluded(n))

\* the list s of nodes is in the order of nodeSorter(false): done nodes first, done
\* nodes by completion time, the others by first start
Sorted(ns, s) ==
    \A i, j \in 1..Len(s) :
        i < j =>
            /\ ns[s[j]].done => ns[s[i]].done
            /\ (ns[s[i]].done /\ ns[s[j]].done) => ns[s[i]].doneTs <= ns[s[j]].doneTs
            /\ (~ns[s[i]].done /\ ~ns[s[j]].done) =>
                   ns[s[i]].firstStart <= ns[s[j]].firstStart

\* the first event of the stream was the event of the package itself
PackageNodeFirst == 1 \in DOMAIN nodes /\ nodes[1].name = <<"p">> /\ ~nodes[1].isTest

\* C11: when the application of an event other than output to a node completes, the
\* list of the node's siblings is sorted: every done node before every node not done,
\* the done nodes by ascending completion time, the others by ascending first start
\* (here even in streams that begin with the package's event).
C11_SiblingsSorted ==
    [][\A ev \in SortEvents :
          (ProcessEvent(ev) /\ ev.Action # "output" /\ PackageNodeFirst) =>
              Sorted(nodes', nodes'[nodes'[Target(ev)].parent].children)]_vars

\* a comes before b in the child list of their common parent
Before(ns, a, b) ==
    LET kids == ns[ns[a].parent].children
    IN \E i, j \in 1..Len(kids) : i < j /\ kids[i] = a /\ kids[j] = b

\* a and b are two done nodes in the child list of the same parent
DoneSiblings(ns, a, b) ==
    /\ a # b /\ a # ROOT /\ b # ROOT
    /\ ns[a].parent = ns[b].parent
    /\ Attached(ns, a) /\ Attached(ns, b)
    /\ ns[a].done /\ ns[b].done

\* C12: once two siblings are both done, their order in the parent's child list is the
\* order of their completion times, and no later step that applies no further terminal
\* event to either of them changes it (here even in streams that begin with the
\* package's event).
C12_DoneOrderFixed ==
    /\ [](PackageNodeFirst =>
             \A a, b \in DOMAIN nodes :
                 (DoneSiblings(nodes, a, b) /\ Before(nodes, a, b)) =>
                     nodes[a].doneTs <= nodes[b].doneTs)
    /\ [][\A a, b \in DOMAIN nodes :
             (/\ PackageNodeFirst
              /\ DoneSiblings(nodes, a, b) /\ DoneSiblings(nodes', a, b)
              /\ nodes'[a].doneTs = nodes[a].doneTs
              /\ nodes'[b].doneTs = nodes[b].doneTs) =>
                 (Before(nodes, a, b) <=> Before(nodes', a, b))]_vars

\* C13: done is monotonic: no step, whatever the action of the event it applies, sets
\* the done flag of a node back to false.
C13_DoneMonotonic ==
    [][\A n \in DOMAIN nodes : nodes[n].done => nodes'[n].done]_vars

\* C13 witness: a test that was done has since received a run event, and is still done.
C13_Witness ==
    \E n \in DOMAIN nodes :
        nodes[n].isTest /\ nodes[n].done /\ nodes[n].status = "run"

\* C14: in every state the children of any node have pairwise distinct names, also
\* after nodes were created from names with a literal slash and after a dropped node
\* was created again.
C14_DistinctNames ==
    \A n \in DOMAIN nodes :
        \A i, j \in 1..Len(nodes[n].children) :
            i # j => nodes[nodes[n].children[i]].name # nodes[nodes[n].children[j]].name

\* C14 witness: a dropped test was created again: two node objects of the same parent
\* bear the same name, one of them in the parent's child list.
C14_Witness ==
    \E n, m \in DOMAIN nodes \ {ROOT} :
        /\ n # m
        /\ nodes[n].parent = nodes[m].parent /\ nodes[n].name = nodes[m].name
        /\ ~Attached(nodes, n) /\ Attached(nodes, m)

\* C15: a pause event applied at time t to a running test adds t - resumedAt to the
\* stored elapsed and sets resumedAt to t, so that over run, pause, cont, pause the
\* stored elapsed is the sum of the two running intervals (here even in streams that
\* begin with the package's event).
C15_PauseAccumulates ==
    [][\A ev \in TimerEvents :
          (/\ ProcessEvent(ev) /\ ev.Action = "pause" /\ PackageNodeFirst
           /\ Target(ev) \in DOMAIN nodes
           /\ nodes[Target(ev)].isTest /\ ~nodes[Target(ev)].done
           /\ nodes[Target(ev)].start # ZeroTime) =>
              /\ nodes'[Target(ev)].elapsed =
                     nodes[Target(ev)].elapsed + (now - nodes[Target(ev)].start)
              /\ nodes'[Target(ev)].start = now]_vars

\* C16: once a node is done its stored elapsed does not change, except by an event
\* that carries an elapsed value: an event without one leaves the elapsed of a done
\* node as it was (here even in streams that begin with the package's event).
C16_ElapsedFrozen ==
    [][\A ev \in TimerEvents :
          (ProcessEvent(ev) /\ ev.Elapsed = 0 /\ PackageNodeFirst) =>
              \A n \in DOMAIN nodes :
                  nodes[n].done => nodes'[n].elapsed = nodes[n].elapsed]_vars

\* the buffer of the node of an event before the event is applied (empty for a node
\* that nodeFor is about to create)
BufferBefore(ev) ==
    IF Target(ev) \in DOMAIN nodes THEN nodes[Target(ev)].outputBuf.data ELSE <<>>

\* what the claim says a buffer holding old is after the line s has arrived
AfterLine(old, s) ==
    IF HasPrefix(s, <<"=", "=", "=">>) THEN old
    ELSE IF HasPrefix(s, <<"-", "-", "-">>) THEN s \o old
    ELSE old \o s

\* C17: for a test node below level 1, an output line that begins with the completion
\* header marker "---" is placed before everything already in the node's buffer, and
\* every other retained line is appended after what the buffer holds.
C17_HeaderFirst ==
    [][\A ev \in HeaderEvents :
          (/\ ProcessCounted(ev) /\ ev.Action = "output"
           /\ nodes'[Target(ev)].isTest /\ nodes'[Target(ev)].lvl > 1) =>
              nodes'[Target(ev)].outputBuf.data = AfterLine(BufferBefore(ev), ev.Output)]_vars

\* C17 witness: a test below level 1 holds a completion header before a line of body
\* text.
C17_Witness ==
    \E n \in DOMAIN nodes :
        /\ nodes[n].isTest /\ nodes[n].lvl > 1
        /\ nodes[n].outputBuf.data = <<"-", "-", "-", "\n", "x", "\n">>

\* C17 as stated, for every test node: a completion header is placed before everything
\* already in the buffer of the node, whatever its level.
C17_HeaderFirstAnyLevel ==
    [][\A ev \in HeaderEvents :
          (ProcessCounted(ev) /\ ev.Action = "output" /\ nodes'[Target(ev)].isTest) =>
              nodes'[Target(ev)].outputBuf.data = AfterLine(BufferBefore(ev), ev.Output)]_vars

\* a text of newline-terminated lines, each line behind four spaces
RECURSIVE Indented(_)
Indented(s) ==
    IF s = <<>> THEN <<>>
    ELSE LET k == CHOOSE i \in 1..Len(s) : s[i] = "\n" /\ \A j \in 1..(i - 1) : s[j] # "\n"
         IN <<" ", " ", " ", " ">> \o SubSeq(s, 1, k) \o Indented(SubSeq(s, k + 1, Len(s)))

\* the event makes its node done, with a non-empty buffer and not to be dropped
FinishesWithOutput(ev) ==
    /\ ev.Action # "output"
    /\ Target(ev) \in DOMAIN nodes
    /\ ~nodes[Target(ev)].done /\ nodes'[Target(ev)].done
    /\ ~nodes[Target(ev)].outputBuf.nil /\ nodes[Target(ev)].outputBuf.data # <<>>
    /\ ~Drop(nodes', Target(ev))

\* C18: when a node becomes done, is not dropped, has a non-empty buffer and its parent
\* is a test, the lines of its buffer are appended to the parent's buffer (created if
\* absent), each behind the margin of four spaces, in the same order, after what the
\* parent's buffer held, and the child's buffer is nil afterwards.
C18_MergedIntoParent ==
    [][\A ev \in MergeEvents :
          (/\ ProcessCounted(ev) /\ FinishesWithOutput(ev)
           /\ nodes[nodes[Target(ev)].parent].isTest) =>
              LET c == Target(ev)
                  par == nodes[c].parent
              IN /\ ~nodes'[par].outputBuf.nil
                 /\ nodes'[par].outputBuf.data =
                        nodes[par].outputBuf.data \o Indented(nodes[c].outputBuf.data)
                 /\ nodes'[c].outputBuf.nil]_vars

\* C18 witness: the subtest B has failed and has no buffer, and the buffer of its
\* parent, the test A, holds A's own line followed by B's header behind the margin.
C18_Witness ==
    \E c \in DOMAIN nodes \ {ROOT} :
        /\ nodes[c].done /\ nodes[c].outputBuf.nil /\ deliveries[c] = 1
        /\ nodes[nodes[c].parent].isTest
        /\ nodes[nodes[c].parent].outputBuf.data =
               <<"x", "\n", " ", " ", " ", " ", "-", "-", "-", "\n">>

\* C19: over any event stream the buffered output of a node is merged into its parent
\* or handed to the presenter at most once in total (here even in streams that begin
\* with the package's event).
C19_DeliveredOnce ==
    PackageNodeFirst => \A n \in DOMAIN deliveries : deliveries[n] <= 1

\* C20: when a node whose parent is not a test becomes done with a non-empty buffer
\* and is not dropped, its text without the trailing newlines is handed to the
\* presenter, and the node's buffer is nil when the application of the event completes
\* (here even in streams that begin with the package's event).
C20_EmittedAndDiscarded ==
    [][\A ev \in OutputEvents :
          (/\ ProcessCounted(ev) /\ FinishesWithOutput(ev) /\ PackageNodeFirst
           /\ ~nodes[nodes[Target(ev)].parent].isTest) =>
              /\ printed' = Append(printed, TrimRightNewlines(nodes[Target(ev)].outputBuf.data))
              /\ nodes'[Target(ev)].outputBuf.nil]_vars

\* the flattened list of the tree, as the view collects it
Listed == CollectNodes(nodes, nodes[ROOT].children)

\* the node n is an element of the list l
InList(l, n) == \E i \in 1..Len(l) : l[i] = n

\* the statuses of low and of high interest
LowInterest == {"pass", "skip", "pause"}
HighInterest == {"fail", "start", "run", "cont", "bench"}

\* the view shows the elision of the tree as it is now, and the elision has removed
\* at least one node
ElidedNow ==
    /\ rows > 0
    /\ Len(visible) < Len(Listed)
    /\ visible = Elide(nodes, Listed, windowHeight - 2)

\* C21: after elision with the budget B (the window height less two) the list holds at
\* most max(B, 0) entries.
C21_WithinBudget ==
    [][Render => Len(visible') <= (IF windowHeight - 2 < 0 THEN 0 ELSE windowHeight - 2)]_vars

\* C21 witness: three nodes are listed and the view shows exactly as many as the
\* positive budget allows, fewer than are listed.
C21_Witness ==
    /\ ElidedNow
    /\ Len(Listed) = 3
    /\ windowHeight - 2 > 0
    /\ Len(visible) = windowHeight - 2

\* C22 as stated: elision never removes a node of level 1.
C22_TopLevelKept ==
    [][Render => \A i \in 1..Len(Listed) :
                     nodes[Listed[i]].lvl = 1 => InList(visible', Listed[i])]_vars

\* C22: elision removes a node of level 1 as it removes any other candidate, in the order
\* of the candidates: when a node of level 1 is removed, its descendants are removed
\* with it, and every node left in the list has a status of higher interest, or a
\* status of the same interest and level 1.
C22_TopLevelRemovedInOrder ==
    [][Render => \A i \in 1..Len(Listed) :
                     LET n == Listed[i]
                     IN (nodes[n].lvl = 1 /\ ~InList(visible', n)) =>
                            \A j \in 1..Len(visible') :
                                LET m == visible'[j]
                                IN /\ nodes[m].parent # n
                                   /\ nodes[m].status \notin LowInterest
                                          \/ nodes[n].status \in LowInterest
                                   /\ (nodes[m].status \in LowInterest
                                           <=> nodes[n].status \in LowInterest)
                                          => nodes[m].lvl = 1]_vars

\* C22 witness: a listed node of level 1 is missing from the view while another node
\* is shown.
C22_Witness ==
    /\ ElidedNow
    /\ visible # <<>>
    /\ \E i \in 1..Len(Listed) : nodes[Listed[i]].lvl = 1 /\ ~InList(visible, Listed[i])

\* C23: after elision the list is still a flattening of the tree with parents before
\* their children: the nodes left keep their order, and every node left below level 1
\* has its parent left, before it.
C23_ParentsBeforeChildren ==
    [][Render =>
          /\ \A i \in 1..Len(visible') :
                 nodes[visible'[i]].lvl > 1 =>
                     \E j \in 1..(i - 1) : visible'[j] = nodes[visible'[i]].parent
          /\ \A i, j \in 1..Len(visible') :
                 i < j => PosIn(Listed, visible'[i]) # 0
                          /\ PosIn(Listed, visible'[i]) < PosIn(Listed, visible'[j])]_vars

\* C23 witness: after an elision the view shows a node below level 1.
C23_Witness ==
    /\ ElidedNow
    /\ \E i \in 1..Len(visible) : nodes[visible[i]].lvl > 1

C25_HeightNeverShrinks ==
    [][/\ Render =>
              /\ rows' >= rows
              /\ Listed # <<>> =>
                     /\ rows' = (IF rows > Len(visible') + 2 THEN rows ELSE Len(visible') + 2)
                     /\ maxPrintedLines' = rows'
       /\ \A h \in 2..MaxHeight : WindowSize(h) => maxPrintedLines' = 0]_vars

\* C25 witness: the render has printed more rows than the nodes it shows and the two
\* lines below them take.
C25_Witness ==
    /\ visible # <<>>
    /\ rows > Len(visible) + 2
    /\ rows = maxPrintedLines

\* the events of the lines of the input that decode, in the order of the lines
RECURSIVE DecodedEvents(_)
DecodedEvents(ls) ==
    IF ls = <<>> THEN <<>>
    ELSE (IF ls[1].json /\ ls[1].fields \subseteq TestEventFields THEN <<ls[1].ev>> ELSE <<>>)
         \o DecodedEvents(Tail(ls))

\* the texts of the lines of the input that do not decode, in the order of the lines
RECURSIVE UndecodedTexts(_)
UndecodedTexts(ls) ==
    IF ls = <<>> THEN <<>>
    ELSE (IF ls[1].json /\ ls[1].fields \subseteq TestEventFields THEN <<>> ELSE <<ls[1].text>>)
         \o UndecodedTexts(Tail(ls))

\* s is the beginning of t
IsPrefix(s, t) == Len(s) <= Len(t) /\ SubSeq(t, 1, Len(s)) = s

\* C26: the events the model has applied are at every moment the first of the events
\* that the lines of the input decode to, each once and in the order of the input, and
\* when Done is applied they are all of them.
C26_OrderedConduit ==
    /\ [](IsPrefix(applied, DecodedEvents(input)))
    /\ [][UpdateDone => applied = DecodedEvents(input)]_vars

\* C26 witness: Done has been applied after three events, not all the same.
C26_Witness ==
    /\ phase = "summary"
    /\ Len(applied) = 3
    /\ applied[1] # applied[2]

\* C27: a line that does not decode is handed verbatim to the passthrough, changes no
\* node, counter or buffer and sends nothing to the model, and the reader goes on to
\* the next line: when Done is applied every line that decodes has been applied,
\* those after such a line too, and the passthrough holds the other lines in order.
C27_PassthroughAndContinue ==
    [][/\ (ReadLine /\ ~(input[rd + 1].json /\ input[rd + 1].fields \subseteq TestEventFields)) =>
              /\ passthrough' = Append(passthrough, input[rd + 1].text)
              /\ rd' = rd + 1
              /\ UNCHANGED <<nodes, nextId, passes, fails, skips, total, printed, overallFail,
                             msgs, applied, phase>>
       /\ UpdateDone =>
              /\ Len(applied) = Len(DecodedEvents(input))
              /\ passthrough = UndecodedTexts(input)]_vars

\* C27 witness: the first line of the input did not decode and is in the passthrough,
\* a later line has been applied, and Done has been applied.
C27_Witness ==
    /\ phase = "summary"
    /\ passthrough # <<>>
    /\ applied # <<>>
    /\ ~input[1].json

\* C28: when a run has ended, through Done or through a quit key, exactly one final
\* summary has been emitted (here even in the runs whose first applied event is an
\* event of the package, which leaves a node to report).
C28_OneFinalSummary ==
    (phase = "final" /\ applied # <<>> /\ applied[1].Test = <<>>) => summaries = 1

C30_SummaryMessage ==
    [][\A pk \in SummaryPackages, pre \in ResultPrefixes, el \in ElapsedTexts,
          m \in TrailingMessages :
          LET ev == OutputEv(pk, SummaryLine(pre, PathText[pk], el, m))
          IN (ProcessEvent(ev) /\ nodes'[Target(ev)].lvl = 1) =>
                 /\ nodes'[Target(ev)].msg = m
                 /\ nodes'[Target(ev)].outputBuf.data = BufferBefore(ev)]_vars

RECURSIVE InTree(_, _)
InTree(ns, n) ==
    \/ n = ROOT
    \/ Attached(ns, n) /\ InTree(ns, ns[n].parent)

\* C32: a node whose status is fail is never removed from the tree: no event, whatever
\* the flags, and not the final pass of main, takes a node out of the tree that has the
\* status fail when the step begins or when it ends.
C32_FailedStays ==
    [][\A n \in DOMAIN nodes \ {ROOT} :
          (/\ InTree(nodes, n)
           /\ nodes[n].status = "fail" \/ nodes'[n].status = "fail") =>
              InTree(nodes', n)]_vars

\* C32 witness: with passed and skipped tests left out of the summary, a failed leaf is
\* in the tree under its finished package after the final pass.
C32_Witness ==
    /\ phase = "final" /\ ~flags.includePassed /\ ~flags.includeSkipped
    /\ \E n \in DOMAIN nodes \ {ROOT} :
          /\ nodes[n].isTest /\ nodes[n].status = "fail" /\ nodes[n].children = <<>>
          /\ nodes[nodes[n].parent].done
          /\ InTree(nodes, n)

\* C33: processChildren with final set removes exactly the children that satisfy the
\* drop rule and keeps all the others, each once: its sort puts the droppable nodes in
\* one run at the end of the list, which is what the backward cut takes off.  This holds
\* for the child list of every node of every reachable tree, and the final pass of main
\* removes from every list of leaves exactly the droppable ones.
C33_DropsExactlyDroppable ==
    /\ [](\A n \in DOMAIN nodes :
             LET s == nodes[n].children
                 sorted == SortStable(nodes, TRUE, s)
                 kids == ProcessChildren(nodes, s, TRUE).kids
                 kept == {s[i] : i \in {j \in 1..Len(s) : ~Drop(nodes, s[j])}}
             IN /\ \A i, j \in 1..Len(sorted) :
                       (i < j /\ Drop(nodes, sorted[i])) => Drop(nodes, sorted[j])
                /\ {kids[i] : i \in 1..Len(kids)} = kept
                /\ Len(kids) = Cardinality(kept))
    /\ [][FinalPass =>
              \A c \in DOMAIN nodes \ {ROOT} :
                  (InTree(nodes, c) /\ nodes[c].children = <<>>) =>
                      (Attached(nodes', c) <=> ~Drop(nodes, c))]_vars

\* C33 witness: the final pass has removed a droppable test that stood before a failed
\* test in the child list of their package, and has kept the failed one.
C33_Witness ==
    /\ phase = "final"
    /\ \E a, b \in DOMAIN nodes \ {ROOT} :
          /\ a < b /\ nodes[a].parent = nodes[b].parent /\ nodes[a].lvl = 2
          /\ nodes[a].done /\ nodes[b].done /\ nodes[a].doneTs = nodes[b].doneTs
          /\ nodes[a].msg = DroppedMsg /\ ~Attached(nodes, a)
          /\ nodes[b].status = "fail" /\ InTree(nodes, b)

\* C34: with the include-slow option set, a test whose stored elapsed is strictly above
\* the slow threshold is never removed from the tree, whatever its outcome and the other
\* flags; an elapsed equal to the threshold protects nothing: a childless test with that
\* elapsed and an outcome left out of the summary is removed by the terminal event of its
\* parent and by the final pass.
C34_SlowKept ==
    /\ [][\A n \in DOMAIN nodes \ {ROOT} :
              (/\ flags.includeSlow /\ nodes[n].isTest /\ InTree(nodes, n)
               /\ \/ nodes[n].elapsed > flags.slowThreshold
                  \/ nodes'[n].elapsed > flags.slowThreshold) =>
                  InTree(nodes', n)]_vars
    /\ [][\A n \in DOMAIN nodes \ {ROOT} :
              (/\ InTree(nodes, n) /\ nodes[n].isTest /\ nodes[n].children = <<>>
               /\ nodes[n].elapsed = flags.slowThreshold /\ OutcomeExcluded(n)
               /\ \/ FinalPass
                  \/ \E ev \in SlowEvents :
                         /\ ProcessEvent(ev) /\ ev.Action \in TerminalActions
                         /\ Target(ev) = nodes[n].parent) =>
                  ~Attached(nodes', n)]_vars

\* C34 witness: with the include-slow option set and the passed tests left out, the
\* final pass has kept a passed test with an elapsed above the threshold and has removed
\* its sibling that passed with an elapsed equal to the threshold.
C34_Witness ==
    /\ phase = "final" /\ flags.includeSlow /\ ~flags.includePassed
    /\ \E a, b \in DOMAIN nodes \ {ROOT} :
          /\ nodes[a].parent = nodes[b].parent
          /\ nodes[a].status = "pass" /\ nodes[a].elapsed > flags.slowThreshold
          /\ InTree(nodes, a)
          /\ nodes[b].status = "pass" /\ nodes[b].elapsed = flags.slowThreshold
          /\ ~Attached(nodes, b)

\* C35: the buffered output of a node that satisfies the drop rule when its terminal
\* event is applied is discarded: nothing is handed to the presenter, the buffer of its
\* parent is what it was, and the node has no buffer afterwards.
C35_DroppedOutputDiscarded ==
    [][\A ev \in DiscardEvents :
          LET c == Target(ev)
          IN (/\ ProcessApplied(ev) /\ ev.Action \in TerminalActions
              /\ c \in DOMAIN nodes /\ ~nodes[c].outputBuf.nil
              /\ Drop(nodes', c)) =>
                 /\ printed' = printed
                 /\ nodes'[nodes[c].parent].outputBuf = nodes[nodes[c].parent].outputBuf
                 /\ nodes'[c].outputBuf.nil]_vars

\* C35 witness: the sub-test A/B of the running test A wrote a line and then passed.
\* It satisfies the drop rule and has no buffer, A has none either, and nothing was
\* handed to the presenter.
C35_Witness ==
    /\ Len(applied) = 4
    /\ applied[3].Action = "output" /\ applied[3].Test = <<"A", "B">>
    /\ applied[4].Action = "pass" /\ applied[4].Test = <<"A", "B">>
    /\ printed = <<>>
    /\ \E n \in DOMAIN nodes \ {ROOT} :
          /\ nodes[n].name = <<"B">> /\ nodes[n].status = "pass" /\ Drop(nodes, n)
          /\ nodes[n].outputBuf.nil
          /\ nodes[nodes[n].parent].isTest /\ nodes[nodes[n].parent].status = "run"
          /\ nodes[nodes[n].parent].outputBuf.nil

\* what an output event leaves alone: the counters, every node but its own, and of its
\* own node everything but the buffer, the summary message, the elapsed, and the start
\* if startToo is set; a node it creates is added at the end of its parent's child list
OutputFrame(ev, startToo) ==
    LET c == Target(ev)
    IN /\ UNCHANGED <<passes, fails, skips, total>>
       /\ DOMAIN nodes' = DOMAIN nodes \cup {c}
       /\ \A n \in DOMAIN nodes :
             /\ nodes'[n].status = nodes[n].status
             /\ nodes'[n].done = nodes[n].done
             /\ nodes'[n].children =
                    IF c \notin DOMAIN nodes /\ n = nodes'[c].parent
                    THEN Append(nodes[n].children, c) ELSE nodes[n].children
             /\ n # c => /\ nodes'[n].outputBuf = nodes[n].outputBuf
                         /\ nodes'[n].msg = nodes[n].msg
                         /\ nodes'[n].elapsed = nodes[n].elapsed
                         /\ nodes'[n].start = nodes[n].start
             /\ \A f \in {"name", "parent", "isTest", "lvl", "firstStart", "doneTs"} :
                    nodes'[n][f] = nodes[n][f]
             /\ (n = c /\ ev.Elapsed = 0) => /\ nodes'[n].elapsed = nodes[n].elapsed
                                            /\ nodes'[n].start = nodes[n].start
             /\ (n = c /\ ev.Elapsed > 0 /\ ~startToo) => nodes'[n].start = nodes[n].start

\* C36 as stated: an output event changes no counter, no node's status or done flag and
\* no order of a child list; all it can do is create its node, change the buffer or the
\* summary message of its node, and overwrite the elapsed of its node when it carries an
\* elapsed above 0.
C36_OutputFrame ==
    [][\A ev \in FrameOutputs : ProcessEvent(ev) => OutputFrame(ev, FALSE)]_vars

\* C36: an output event changes no counter, no node's status or done flag and no order
\* of a child list; all it can do is create its node, change the buffer or the summary
\* message of its node, and, when it carries an elapsed above 0, overwrite the elapsed of
\* its node and reset the start of its node to the zero time.
C36_OutputFrameWithStart ==
    [][\A ev \in FrameOutputs :
          ProcessEvent(ev) =>
              /\ OutputFrame(ev, TRUE)
              /\ ev.Elapsed > 0 => nodes'[Target(ev)].start = ZeroTime]_vars

\* C36 witness: the running test A has a line in its buffer, the elapsed of the output
\* event that brought it, and the zero time as its start; the package has its summary
\* message.
C36_Witness ==
    \E n \in DOMAIN nodes \ {ROOT} :
        /\ nodes[n].isTest /\ nodes[n].status = "run" /\ ~nodes[n].done
        /\ ~nodes[n].outputBuf.nil /\ nodes[n].elapsed = 3 /\ nodes[n].start = ZeroTime
        /\ nodes[nodes[n].parent].msg = <<"c", " ", "m">>

\* C37: a render is read-only on the test state: it leaves the tree as it is, no node
\* added, removed, moved or modified, and the counters as they are; what elision removes
\* it removes from the displayed list alone, and of the fields of the model a render
\* changes at most the tracked maximum of printed rows.
C37_RenderReadOnly ==
    [][Render =>
          /\ nodes' = nodes
          /\ UNCHANGED <<passes, fails, skips, total>>
          /\ UNCHANGED <<nextId, flags, now, printed, phase, overallFail, windowHeight>>
          /\ \A i \in 1..Len(visible') : InList(Listed, visible'[i])
          /\ \A i \in 1..Len(Listed) : InTree(nodes', Listed[i])]_vars

\* C37 witness: a render has raised the tracked maximum from 0 and shows fewer nodes
\* than the tree holds, and every node it left out is still in the tree.
C37_Witness ==
    /\ ElidedNow
    /\ maxPrintedLines = Len(visible) + 2
    /\ \E i \in 1..Len(Listed) : ~InList(visible, Listed[i]) /\ InTree(nodes, Listed[i])
    /\ total > 0

\* C38: elision never hides a failed node while a passed, skipped or paused node is
\* still shown: when a render leaves a node with status fail of the flattened tree out
\* of the list it shows, the list it shows holds no node with status pass, skip or pause.
C38_FailedShownFirst ==
    [][Render =>
          ((\E i \in 1..Len(Listed) :
                nodes[Listed[i]].status = "fail" /\ ~InList(visible', Listed[i]))
           => \A j \in 1..Len(visible') : nodes[visible'[j]].status \notin LowInterest)]_vars

\* C39: with a window height h of 2 or more, a fitted render emits at most h lines in
\* all, the rows of the nodes, the padding, the blank line and the summary line, in every
\* state that events, renders and window size messages lead to; before the first window
\* size message, with the height 0, a fitted render shows no node.
C39_FitsWindow ==
    [][Render =>
          /\ windowHeight >= 2 => rows' <= windowHeight
          /\ windowHeight = 0 => visible' = <<>>]_vars

\* C39 witness: the tree holds more nodes than the window has rows for them, and the
\* render has filled the window to its last line.
C39_Witness ==
    /\ ElidedNow
    /\ windowHeight >= 2
    /\ Len(Listed) > windowHeight - 2
    /\ rows = windowHeight

====
